---------------------------- MODULE Spec2Model ----------------------------
(***************************************************************************)
(* A model of the gokoala OGC API Features pipeline: the cursor codec      *)
(* (ogc/features/domain/cursor.go), the GeoPackage feature-collection      *)
(* query (GeoPackage.makeDefaultQuery / GetFeatures) and the features      *)
(* handler (Features.CollectionContent / parseLimit).                      *)
(*                                                                         *)
(* Bytes are the integers 0..255, byte slices are sequences of bytes.      *)
(* An EncodedCursor is a sequence of base64 symbols: 0..63 is the index of *)
(* a character in the URL-safe alphabet, B64Pad is '=', B64Newline is      *)
(* '\n' or '\r' (skipped by the decoder) and B64Invalid is any other       *)
(* character.                                                              *)
(***************************************************************************)
EXTENDS Integers, Sequences, FiniteSets, TLC

\* ------------------------------------------------------------------------
\* Bounds of the model
\* ------------------------------------------------------------------------

\* longest filters checksum drawn as an input
MaxChecksumLen == 2

\* longest raw (client supplied) cursor string drawn as an input
MaxRawLen == 4

\* longest limit parameter drawn as an input of parseLimit
MaxLimitLen == 2

\* largest Limit.Default and Limit.Max drawn as a configuration of parseLimit
MaxCfgLimit == 3

\* the feature table holds fids of 1..MaxSmallFid (and 123, 124, 125)
MaxSmallFid == 2

\* the server's Limit.Max while a client pages through the collection
MaxLimit == 2

\* number of pages a client requests at most
MaxPages == 5

\* number of inserts and deletes applied while a client pages
MaxMods == 1

\* most collections of a configuration
MaxCollections == 2

\* most rows of gpkg_contents
MaxRows == 2

\* most bbox queries of a traversal
MaxQueries == 3

\* most feature requests served by a process
MaxRequests == 2

\* most shutdown hooks registered
MaxHooks == 2

\* longest shutdownDelay, in seconds
MaxShutdownDelay == 1

\* ------------------------------------------------------------------------
\* Generic helpers
\* ------------------------------------------------------------------------

\* all sequences over S of length 0..n
SeqsUpTo(S, n) == UNION {[1..k -> S] : k \in 0..n}

\* ------------------------------------------------------------------------
\* Cursor codec (ogc/features/domain/cursor.go)
\* ------------------------------------------------------------------------

\* const separator = '|'
separator == 124

\* '=' : the padding character of base64.URLEncoding
B64Pad == 64

\* a character outside the URL-safe alphabet that is neither '=' nor a newline
B64Invalid == 65

\* '\n' or '\r'
B64Newline == 66

\* big.NewInt(fid).Bytes(): the big-endian bytes of |fid| without leading
\* zero bytes; 0 gives the empty slice
RECURSIVE BigBytes(_)
BigBytes(n) ==
    IF n < 0 THEN BigBytes(0 - n)
    ELSE IF n = 0 THEN <<>>
    ELSE Append(BigBytes(n \div 256), n % 256)

\* bs without its leading zero bytes
RECURSIVE StripZeros(_)
StripZeros(bs) ==
    IF bs # <<>> /\ Head(bs) = 0 THEN StripZeros(Tail(bs)) ELSE bs

\* the unsigned big-endian value of bs
RECURSIVE BytesValue(_)
BytesValue(bs) ==
    IF bs = <<>> THEN 0
    ELSE 256 * BytesValue(SubSeq(bs, 1, Len(bs) - 1)) + bs[Len(bs)]

\* the low 64 bits of the unsigned big-endian number bs, as up to 8 bytes
Low64(bs) ==
    IF Len(bs) > 8 THEN SubSeq(bs, Len(bs) - 7, Len(bs)) ELSE bs

\* big.NewInt(0).SetBytes(bs).Int64(): the low 64 bits of the unsigned value
\* read as a two's complement int64. A result with the sign bit set is
\* returned as -1: Decode only tests it for fid < 0 and then overwrites it.
BigInt64(bs) ==
    LET low == Low64(StripZeros(bs))
    IN  IF Len(low) = 8 /\ low[1] >= 128 THEN -1
        ELSE BytesValue(StripZeros(low))

\* base64.URLEncoding.EncodeToString: three bytes give four symbols, a
\* remainder of one or two bytes is padded with '='
RECURSIVE EncodeToString(_)
EncodeToString(bs) ==
    IF bs = <<>> THEN <<>>
    ELSE IF Len(bs) = 1 THEN
        << bs[1] \div 4, (bs[1] % 4) * 16, B64Pad, B64Pad >>
    ELSE IF Len(bs) = 2 THEN
        << bs[1] \div 4, (bs[1] % 4) * 16 + (bs[2] \div 16),
           (bs[2] % 16) * 4, B64Pad >>
    ELSE
        << bs[1] \div 4, (bs[1] % 4) * 16 + (bs[2] \div 16),
           (bs[2] % 16) * 4 + (bs[3] \div 64), bs[3] % 64 >>
        \o EncodeToString(SubSeq(bs, 4, Len(bs)))

\* the decoder skips '\r' and '\n' wherever they stand
RECURSIVE SkipNewlines(_)
SkipNewlines(s) ==
    IF s = <<>> THEN <<>>
    ELSE IF Head(s) = B64Newline THEN SkipNewlines(Tail(s))
    ELSE <<Head(s)>> \o SkipNewlines(Tail(s))

\* the bytes of one quantum of n symbols (n in 2..4), trailing bits dropped
\* (base64.URLEncoding is not strict)
QuantumBytes(q, n) ==
    LET b1 == q[1] * 4 + (q[2] \div 16)
        b2 == (q[2] % 16) * 16 + (IF n >= 3 THEN q[3] \div 4 ELSE 0)
        b3 == (IF n >= 3 THEN (q[3] % 4) * 64 ELSE 0) + (IF n = 4 THEN q[4] ELSE 0)
    IN  IF n = 2 THEN <<b1>> ELSE IF n = 3 THEN <<b1, b2>> ELSE <<b1, b2, b3>>

\* Encoding.decodeQuantum over the whole input (newlines already skipped):
\* [err, bytes]. An input that ends inside a quantum, a character outside
\* the alphabet, padding in the first two places of a quantum, a single '='
\* in the third place and anything after the padding are errors.
RECURSIVE DecodeQuanta(_)
DecodeQuanta(s) ==
    IF s = <<>> THEN [err |-> FALSE, bytes |-> <<>>]
    ELSE IF Len(s) < 4 THEN [err |-> TRUE, bytes |-> <<>>]
    ELSE IF s[1] > 63 \/ s[2] > 63 THEN [err |-> TRUE, bytes |-> <<>>]
    ELSE IF s[3] = B64Pad THEN
        IF s[4] = B64Pad /\ Len(s) = 4
        THEN [err |-> FALSE, bytes |-> QuantumBytes(s, 2)]
        ELSE [err |-> TRUE, bytes |-> <<>>]
    ELSE IF s[3] > 63 THEN [err |-> TRUE, bytes |-> <<>>]
    ELSE IF s[4] = B64Pad THEN
        IF Len(s) = 4
        THEN [err |-> FALSE, bytes |-> QuantumBytes(s, 3)]
        ELSE [err |-> TRUE, bytes |-> <<>>]
    ELSE IF s[4] > 63 THEN [err |-> TRUE, bytes |-> <<>>]
    ELSE
        LET rest == DecodeQuanta(SubSeq(s, 5, Len(s)))
        IN  [err |-> rest.err,
             bytes |-> IF rest.err THEN <<>> ELSE QuantumBytes(s, 4) \o rest.bytes]

\* base64.URLEncoding.DecodeString
DecodeString(s) == DecodeQuanta(SkipNewlines(s))

\* bytes.Split(decoded, []byte{separator}): the parts between ALL separators
RECURSIVE BytesSplit(_, _)
BytesSplit(bs, sep) ==
    IF \A i \in 1..Len(bs) : bs[i] # sep THEN <<bs>>
    ELSE
        LET i == CHOOSE k \in 1..Len(bs) :
                    bs[k] = sep /\ \A j \in 1..(k - 1) : bs[j] # sep
        IN  <<SubSeq(bs, 1, i - 1)>> \o BytesSplit(SubSeq(bs, i + 1, Len(bs)), sep)

\* func encodeCursor(fid int64, filtersChecksum []byte) EncodedCursor
encodeCursor(fid, filtersChecksum) ==
    LET fidAsBytes == BigBytes(fid)
        cursor == Append(fidAsBytes, separator) \o filtersChecksum
    IN  EncodeToString(cursor)

\* DecodedCursor{fid, filtersChecksum}
DecodedCursor(fid, filtersChecksum) ==
    [FID |-> fid, FiltersChecksum |-> filtersChecksum]

\* Decode without the clamp of a negative fid (lines 84-87 left out)
DecodeNoClamp(c, filtersChecksum) ==
    IF c = <<>> THEN DecodedCursor(0, filtersChecksum)
    ELSE
        LET dec == DecodeString(c)
        IN  IF dec.err \/ Len(dec.bytes) = 0
            THEN DecodedCursor(0, filtersChecksum)
            ELSE
                LET decodedParts == BytesSplit(dec.bytes, separator)
                    fid == BigInt64(decodedParts[1])
                IN  IF Len(decodedParts) > 1 /\ decodedParts[2] # filtersChecksum
                    THEN DecodedCursor(0, filtersChecksum)
                    ELSE DecodedCursor(fid, filtersChecksum)

\* func (c EncodedCursor) Decode(filtersChecksum []byte) DecodedCursor
Decode(c, filtersChecksum) ==
    IF c = <<>> THEN DecodedCursor(0, filtersChecksum)
    ELSE
        LET dec == DecodeString(c)
        IN  IF dec.err \/ Len(dec.bytes) = 0
            THEN DecodedCursor(0, filtersChecksum)
            ELSE
                LET decodedParts == BytesSplit(dec.bytes, separator)
                    raw == BigInt64(decodedParts[1])
                    fid == IF raw < 0 THEN 0 ELSE raw
                IN  IF Len(decodedParts) > 1 /\ decodedParts[2] # filtersChecksum
                    THEN DecodedCursor(0, filtersChecksum)
                    ELSE DecodedCursor(fid, filtersChecksum)

\* Cursors{}: the zero value GetFeatures returns beside an error or no page
NoCursors ==
    [Prev |-> <<>>, Next |-> <<>>, HasPrev |-> FALSE, HasNext |-> FALSE]

\* func NewCursors(fid PrevNextFID, filtersChecksum []byte) Cursors
NewCursors(fid, filtersChecksum) ==
    [Prev |-> encodeCursor(fid.Prev, filtersChecksum),
     Next |-> encodeCursor(fid.Next, filtersChecksum),
     HasPrev |-> fid.Prev > 0,
     HasNext |-> fid.Next > 0]

\* ------------------------------------------------------------------------
\* Feature-collection queries (GeoPackage.makeFeaturesQuery), over a feature
\* table given as its set of fids. A SQL NULL is the empty sequence, a value
\* v is <<v>>.
\* ------------------------------------------------------------------------

Min(a, b) == IF a <= b THEN a ELSE b

\* the first n elements of s (SQL "limit n", n >= 0)
Take(s, n) == SubSeq(s, 1, Min(n, Len(s)))

\* "order by fid asc" of a set of fids
RECURSIVE SortAsc(_)
SortAsc(S) ==
    IF S = {} THEN <<>>
    ELSE LET m == CHOOSE x \in S : \A y \in S : x <= y
         IN  <<m>> \o SortAsc(S \ {m})

\* "order by fid desc" of a set of fids
RECURSIVE SortDesc(_)
SortDesc(S) ==
    IF S = {} THEN <<>>
    ELSE LET m == CHOOSE x \in S : \A y \in S : x >= y
         IN  <<m>> \o SortDesc(S \ {m})

\* the elements of a sequence
Range(s) == { s[i] : i \in 1..Len(s) }

\* next as (select * from T where fid >= :fid order by fid asc limit :limit + 1)
NextCTE(T, fid, limit) ==
    Take(SortAsc({ f \in T : f >= fid }), limit + 1)

\* prev as (select * from T where fid < :fid order by fid desc limit :limit)
PrevCTE(T, fid, limit) ==
    Take(SortDesc({ f \in T : f < fid }), limit)

\* nextprev as (select * from next union all select * from prev)
NextPrevCTE(next, prev) == next \o prev

\* nextprevfeat as (select *, lag(fid, :limit) over (order by fid) as prevfid,
\*                            lead(fid, :limit) over (order by fid) as nextfid
\*                  from nextprev)
\* The rows leave the window step in its order (order by fid).
NextPrevFeatCTE(nextprev, limit) ==
    LET part == SortAsc(Range(nextprev))
    IN  [ i \in 1..Len(part) |->
            [ fid     |-> part[i],
              prevfid |-> IF i - limit >= 1 THEN <<part[i - limit]>> ELSE <<>>,
              nextfid |-> IF i + limit <= Len(part) THEN <<part[i + limit]>> ELSE <<>> ] ]

\* select * from nextprevfeat where fid >= :fid limit :limit
SelectPage(nextprevfeat, fid, limit) ==
    LET AtOrAfterFid(row) == row.fid >= fid
    IN  Take(SelectSeq(nextprevfeat, AtOrAfterFid), limit)

\* func (g *GeoPackage) makeDefaultQuery(table, opt): the rows of the query
makeDefaultQuery(T, opt) ==
    LET fid == opt.Cursor.FID
        limit == opt.Limit
        nextprev == NextPrevCTE(NextCTE(T, fid, limit), PrevCTE(T, fid, limit))
    IN  SelectPage(NextPrevFeatCTE(nextprev, limit), fid, limit)

\* the geometry of the feature with fid f: a point. Its row in the R-tree and
\* its minx/maxx/miny/maxy columns hold the point's bounding box.
PointOf(f) == <<f % 10, 0>>

\* an extent is <<minx, miny, maxx, maxy>>; no bbox (nil) is the empty sequence
NoBbox == <<>>

\* minx <= :maxx and maxx >= :minx and miny <= :maxy and maxy >= :miny
BoundingBoxHit(f, bbox) ==
    /\ PointOf(f)[1] <= bbox[3] /\ PointOf(f)[1] >= bbox[1]
    /\ PointOf(f)[2] <= bbox[4] /\ PointOf(f)[2] >= bbox[2]

\* st_intersects((select * from given_bbox), castautomagic(f.geom)) = 1
\* (given_bbox is the polygon of the extent)
st_intersects(bbox, f) ==
    /\ bbox[1] <= PointOf(f)[1] /\ PointOf(f)[1] <= bbox[3]
    /\ bbox[2] <= PointOf(f)[2] /\ PointOf(f)[2] <= bbox[4]

bboxSizeBig == 10000

\* "order by fid asc limit n" of a set of fids
RECURSIVE OrderByAscLimit(_, _)
OrderByAscLimit(S, n) ==
    IF n <= 0 \/ S = {} THEN <<>>
    ELSE LET m == CHOOSE x \in S : \A y \in S : x <= y
         IN  <<m>> \o OrderByAscLimit(S \ {m}, n - 1)

\* "order by fid desc limit n" of a set of fids: ascending by -fid
OrderByDescLimit(S, n) ==
    LET desc == OrderByAscLimit({ 0 - f : f \in S }, n)
    IN  [ i \in DOMAIN desc |-> 0 - desc[i] ]

\* bbox_size with 'small' up to bboxSizeBig candidates
bbox_sizeInclusive(T, bbox) ==
    IF Cardinality({ f \in T : BoundingBoxHit(f, bbox) }) <= bboxSizeBig
    THEN "small" ELSE "big"

\* bbox_size as (select iif(count(id) < bboxSizeBig, 'small', 'big')
\*               from (select id from rtree where <hit> limit bboxSizeBig))
bbox_size(T, bbox) ==
    LET candidates == Min(Cardinality({ f \in T : BoundingBoxHit(f, bbox) }), bboxSizeBig)
    IN  IF candidates < bboxSizeBig THEN "small" ELSE "big"

\* the rows of next_bbox_rtree / next_bbox_btree whatever the bbox
NextBboxUnfiltered(T, opt, size) ==
    OrderByAscLimit({ f \in T : f >= opt.Cursor.FID },
                    IF bbox_size(T, opt.Bbox) = size THEN opt.Limit + 1 ELSE 0)

\* next_bbox_rtree / next_bbox_btree: the features that hit the bbox and
\* intersect it, with fid >= :fid, ascending,
\* limit iif(bbox_size == size, :limit + 1, 0)
NextBbox(T, opt, size) ==
    OrderByAscLimit({ f \in T : /\ BoundingBoxHit(f, opt.Bbox)
                                /\ st_intersects(opt.Bbox, f)
                                /\ f >= opt.Cursor.FID },
                    IF bbox_size(T, opt.Bbox) = size THEN opt.Limit + 1 ELSE 0)

\* prev_bbox_rtree / prev_bbox_btree: the same with fid < :fid, descending,
\* limit iif(bbox_size == size, :limit, 0)
PrevBbox(T, opt, size) ==
    OrderByDescLimit({ f \in T : /\ BoundingBoxHit(f, opt.Bbox)
                                 /\ st_intersects(opt.Bbox, f)
                                 /\ f < opt.Cursor.FID },
                     IF bbox_size(T, opt.Bbox) = size THEN opt.Limit ELSE 0)

\* func (g *GeoPackage) makeBboxQuery(table, opt): the rows of the query.
\* next and prev are each the union of the R-tree ('small') and the B-tree
\* ('big') selection.
makeBboxQuery(T, opt) ==
    LET next == NextBbox(T, opt, "small") \o NextBbox(T, opt, "big")
        prev == PrevBbox(T, opt, "small") \o PrevBbox(T, opt, "big")
    IN  SelectPage(NextPrevFeatCTE(NextPrevCTE(next, prev), opt.Limit),
                   opt.Cursor.FID, opt.Limit)

\* func (g *GeoPackage) makeFeaturesQuery(table, opt)
makeFeaturesQuery(T, opt) ==
    IF opt.Bbox # NoBbox THEN makeBboxQuery(T, opt) ELSE makeDefaultQuery(T, opt)

\* a NULL column leaves the int64 field of PrevNextFID at its zero value
NullToZero(col) == IF col = <<>> THEN 0 ELSE col[1]

\* domain.MapRowsToFeatures(rows, ...) ([]*Feature, *PrevNextFID, error), the
\* mapper GetFeatures calls: the features in row order and the
\* (prevfid, nextfid) pair of one row, nil when there is no row. The row is
\* the first one: that is the row whose pair the documented scenarios show
\* (fids 1..10, limit 2: next = 3 beside 1,2 and prev = 1 beside 3,4).
MapRowsToFeatures(rows) ==
    [ features |-> [ i \in 1..Len(rows) |-> rows[i].fid ],
      nextPrev |-> IF rows = <<>> THEN <<>>
                   ELSE << [ Prev |-> NullToZero(rows[1].prevfid),
                             Next |-> NullToZero(rows[1].nextfid) ] >> ]

\* the collections the GeoPackage holds a feature table for
\* (the keys of featureTableByCollectionID)
GpkgCollections == {"addresses"}

\* func (g *GeoPackage) GetFeatures(ctx, collection, options): [fc, cursors, err]
\* fc = <<>> is the nil collection, <<page>> a collection with the page's fids.
\* sqlErr: preparing or running the statement fails (or the query times out).
GetFeatures(T, collection, options, sqlErr) ==
    IF collection \notin GpkgCollections
    THEN [fc |-> <<>>, cursors |-> NoCursors, err |-> TRUE]
    ELSE IF sqlErr
    THEN [fc |-> <<>>, cursors |-> NoCursors, err |-> TRUE]
    ELSE
        LET rows == makeFeaturesQuery(T, options)
            mapped == MapRowsToFeatures(rows)
        IN  IF mapped.nextPrev = <<>>
            THEN [fc |-> <<>>, cursors |-> NoCursors, err |-> FALSE]
            ELSE [fc |-> <<mapped.features>>,
                  cursors |-> NewCursors(mapped.nextPrev[1],
                                         options.Cursor.FiltersChecksum),
                  err |-> FALSE]

\* ------------------------------------------------------------------------
\* Features handler (ogc/features: Features.CollectionContent, parseLimit).
\* A query parameter is a sequence of characters; the empty sequence is a
\* missing (or empty) parameter, as url.Values.Get gives "" for both.
\* ------------------------------------------------------------------------

Digits == <<"0", "1", "2", "3", "4", "5", "6", "7", "8", "9">>

IsDigit(ch) == \E i \in 1..Len(Digits) : Digits[i] = ch

DigitValue(ch) == (CHOOSE i \in 1..Len(Digits) : Digits[i] = ch) - 1

\* the value of a sequence of decimal digits
RECURSIVE DigitsValue(_)
DigitsValue(s) ==
    IF s = <<>> THEN 0
    ELSE 10 * DigitsValue(SubSeq(s, 1, Len(s) - 1)) + DigitValue(s[Len(s)])

\* strconv.Atoi on a string shorter than 19 characters: an optional sign,
\* then one or more digits; anything else is a syntax error with value 0
Atoi(s) ==
    LET signed == s # <<>> /\ s[1] \in {"-", "+"}
        body == IF signed THEN Tail(s) ELSE s
    IN  IF body = <<>> \/ \E i \in 1..Len(body) : ~IsDigit(body[i])
        THEN [val |-> 0, err |-> TRUE]
        ELSE [val |-> IF s[1] = "-" THEN 0 - DigitsValue(body) ELSE DigitsValue(body),
              err |-> FALSE]

\* parseLimit with the clamp to Limit.Max left out (lines 459-461)
parseLimitNoClamp(param, cfg) ==
    LET parsed == IF param # <<>> THEN Atoi(param)
                  ELSE [val |-> cfg.Default, err |-> FALSE]
    IN  [limit |-> parsed.val, err |-> parsed.err \/ parsed.val < 0]

\* func (f *Features) parseLimit(params neturl.Values) (int, error)
\* cfg is Config.OgcAPI.Features.Limit: [Default, Max]
parseLimit(param, cfg) ==
    LET parsed == IF param # <<>> THEN Atoi(param)
                  ELSE [val |-> cfg.Default, err |-> FALSE]
        limit == IF param # <<>> /\ parsed.val > cfg.Max THEN cfg.Max
                 ELSE parsed.val
    IN  [limit |-> limit, err |-> parsed.err \/ limit < 0]

\* strings.Split(s, ","): the pieces of s between the commas
StringsSplit(s, sep) == BytesSplit(s, sep)

\* strconv.ParseFloat(v, 64) on the values drawn here: a run of decimal
\* digits is its value; the empty string and a string with a letter are errors
ParseFloat(v) ==
    IF v = <<>> \/ \E i \in 1..Len(v) : ~IsDigit(v[i])
    THEN [val |-> 0, err |-> TRUE]
    ELSE [val |-> DigitsValue(v), err |-> FALSE]

\* func (f *Features) parseBbox(params neturl.Values) (*geom.Extent, error)
parseBbox(param) ==
    IF param = <<>> THEN [bbox |-> NoBbox, err |-> FALSE]
    ELSE LET bboxValues == StringsSplit(param, ",")
         IN  IF Len(bboxValues) # 4 THEN [bbox |-> NoBbox, err |-> TRUE]
             ELSE IF \E i \in 1..4 : ParseFloat(bboxValues[i]).err
             THEN [bbox |-> NoBbox, err |-> TRUE]
             ELSE [bbox |-> [ i \in 1..4 |-> ParseFloat(bboxValues[i]).val ],
                   err |-> FALSE]

\* a datetime parameter taken as it is, without an error
parseDateTimeAccepted(param) == FALSE

\* func (f *Features) parseDateTime(params neturl.Values) error
parseDateTime(param) == param # <<>>

\* func (f *Features) parseFeatureCollectionRequest(r):
\* (collectionID, encodedCursor, limit, bbox, errors.Join(...))
parseFeatureCollectionRequest(r, cfg) ==
    [collectionID |-> r.collection,
     encodedCursor |-> r.cursor,
     limit |-> parseLimit(r.limit, cfg).limit,
     bbox |-> parseBbox(r.bbox).bbox,
     err |-> \/ parseLimit(r.limit, cfg).err
             \/ parseBbox(r.bbox).err
             \/ parseDateTime(r.datetime)]

\* featureCollectionURL.validateNoUnknownParams(): an error when the query
\* holds a parameter that is not one of the parameters of the API
validateNoUnknownParams(r) == r.unknown

\* the collections of Config.OgcAPI.Features.Collections
\* (the keys of collectionsMetadata): "addresses" has a feature table in the
\* GeoPackage, "buildings" is configured and matches no row of gpkg_contents
\* (readGpkgContents accepts that as long as another collection matches)
ConfiguredCollections == {"addresses", "buildings"}

StatusOK == 200

StatusBadRequest == 400

StatusNotFound == 404

StatusInternalServerError == 500

\* a response without a feature collection
ErrorResponse(status) ==
    [status |-> status, queried |-> FALSE,
     opt |-> [Cursor |-> DecodedCursor(0, <<>>), Limit |-> 0, Bbox |-> NoBbox],
     features |-> <<>>, cursors |-> NoCursors]

\* Features.CollectionContent for a request
\*   r = [collection, limit, bbox, datetime, unknown, cursor, checksum, format]
\* limit, bbox, datetime and cursor are the query parameters of these names,
\* unknown tells whether the query holds a parameter the API does not know,
\* checksum is url.checksum(), the hash of the filter parameters, and format
\* the negotiated format. T is the feature table, sqlErr whether the
\* datasource fails.
\* The response records the status, whether the datasource was queried and
\* with which options, and the features and cursors handed to the html or
\* GeoJSON writer. featuresAsJSONFG() is called without the response writer:
\* nothing is written and net/http answers 200 with an empty body.
CollectionContent(r, T, cfg, sqlErr) ==
    LET parsed == parseFeatureCollectionRequest(r, cfg)
    IN  IF parsed.err THEN ErrorResponse(StatusBadRequest)
        ELSE IF validateNoUnknownParams(r) THEN ErrorResponse(StatusBadRequest)
        ELSE IF parsed.collectionID \notin ConfiguredCollections
        THEN ErrorResponse(StatusNotFound)
        ELSE
            LET options == [Cursor |-> Decode(parsed.encodedCursor, r.checksum),
                            Limit |-> parsed.limit,
                            Bbox |-> parsed.bbox]
                got == GetFeatures(T, parsed.collectionID, options, sqlErr)
                asked == [ErrorResponse(StatusOK) EXCEPT
                            !.queried = TRUE, !.opt = options]
            IN  IF got.err
                THEN [asked EXCEPT !.status = StatusInternalServerError]
                ELSE IF got.fc = <<>>
                THEN [asked EXCEPT !.status = StatusNotFound]
                ELSE IF r.format \in {"html", "json"}
                THEN [asked EXCEPT !.features = got.fc[1],
                                   !.cursors = got.cursors]
                ELSE IF r.format = "jsonfg"
                THEN asked
                ELSE [asked EXCEPT !.status = StatusNotFound]

\* ------------------------------------------------------------------------
\* The two feature routes as the client sees them: status and body.
\* A datasource error is its text; NoError is no error.
\* ------------------------------------------------------------------------

NoError == ""

\* what a handler writes: a text, the collection id and feature id it is
\* formatted with (NoFid: none), and the features of a payload
Body(text, collection, fid, features) ==
    [text |-> text, collection |-> collection, fid |-> fid, features |-> features]

NoFid == 0 - 1

EmptyBody == Body("", "", NoFid, <<>>)

\* http.NotFound(w, r)
NotFoundBody == Body("404 page not found", "", NoFid, <<>>)

\* the message with the datasource error written into it
FeaturesErrorMsgVerbatim(collectionID, err) ==
    Body(err, collectionID, NoFid, <<>>)

\* msg := fmt.Sprintf("failed to retrieve feature collection %s", collectionID)
\* (err goes to the log only)
FeaturesErrorMsg(collectionID, err) ==
    Body("failed to retrieve feature collection", collectionID, NoFid, <<>>)

\* msg := fmt.Sprintf("failed to retrieve feature %d in collection %s",
\*                    featureID, collectionID)  (err goes to the log only)
FeatureErrorMsg(featureID, collectionID, err) ==
    Body("failed to retrieve feature in collection", collectionID, featureID, <<>>)

\* the response of GET /collections/{collectionId}/items to request r when
\* the datasource fails with dsErr (NoError: it does not fail)
ItemsResponse(r, T, cfg, dsErr) ==
    LET c == CollectionContent(r, T, cfg, dsErr # NoError)
    IN  [status |-> c.status,
         body |-> IF c.status = StatusBadRequest
                  THEN Body("bad request", "", NoFid, <<>>)
                  ELSE IF c.status = StatusNotFound THEN NotFoundBody
                  ELSE IF c.status = StatusInternalServerError
                  THEN FeaturesErrorMsg(r.collection, dsErr)
                  ELSE IF r.format = "jsonfg" THEN EmptyBody
                  ELSE Body("features", r.collection, NoFid, c.features)]

\* func (g *GeoPackage) GetFeature(ctx, collection, featureID): [feat, err]
\* feat = <<>> is the nil feature, <<f>> the feature with fid f
GetFeature(T, collection, featureID, dsErr) ==
    IF collection \notin GpkgCollections
    THEN [feat |-> <<>>, err |-> "can't query collection since it doesn't exist in geopackage"]
    ELSE IF dsErr # NoError
    THEN [feat |-> <<>>, err |-> dsErr]
    ELSE
        \* select * from T f where f.fid = :fid limit 1
        LET features == Take(SortAsc({ f \in T : f = featureID }), 1)
        IN  IF Len(features) # 1
            THEN [feat |-> <<>>, err |-> NoError]
            ELSE [feat |-> <<features[1]>>, err |-> NoError]

\* Features.Feature for a request r = [collection, featureId, unknown, format]:
\* featureId is the {featureId} part of the path, unknown tells whether the
\* query holds a parameter the API does not know. featureAsJSONFG() is called
\* without the response writer: nothing is written and net/http answers 200
\* with an empty body.
Feature(r, T, dsErr) ==
    LET featureID == Atoi(r.featureId)
    IN  IF featureID.err
        THEN [status |-> StatusBadRequest,
              body |-> Body("feature ID must be a number", "", NoFid, <<>>)]
        ELSE IF validateNoUnknownParams(r)
        THEN [status |-> StatusBadRequest,
              body |-> Body("bad request", "", NoFid, <<>>)]
        ELSE
            LET got == GetFeature(T, r.collection, featureID.val, dsErr)
            IN  IF got.err # NoError
                THEN [status |-> StatusInternalServerError,
                      body |-> FeatureErrorMsg(featureID.val, r.collection, got.err)]
                ELSE IF got.feat = <<>>
                THEN [status |-> StatusNotFound, body |-> NotFoundBody]
                ELSE IF r.format \in {"html", "json"}
                THEN [status |-> StatusOK,
                      body |-> Body("feature", r.collection, got.feat[1], got.feat)]
                ELSE IF r.format = "jsonfg"
                THEN [status |-> StatusOK, body |-> EmptyBody]
                ELSE [status |-> StatusNotFound, body |-> NotFoundBody]

\* ------------------------------------------------------------------------
\* Reverse proxy (engine.Engine.ReverseProxy). An http.Response is
\* [StatusCode, Header, Body]; of the header the Content-Type and the
\* Content-Length values are kept, each a sequence of strings (no value: the
\* empty sequence); a body is a sequence of bytes.
\* ------------------------------------------------------------------------

StatusNoContent == 204

StatusBadGateway == 502

\* func removeBody(proxyRes *http.Response)
removeBody(proxyRes) ==
    [proxyRes EXCEPT !.Body = <<>>,
                     !.Header = [ContentLength |-> <<"0">>, ContentType |-> <<>>]]

\* proxyRes.Header.Set("Content-Type", value)
SetContentType(proxyRes, value) ==
    [proxyRes EXCEPT !.Header.ContentType = <<value>>]

\* a modifyResponse that turns every upstream status into 204 under prefer204
modifyResponseAnyStatus(proxyRes, prefer204, contentTypeOverwrite) ==
    IF prefer204
    THEN LET emptied == removeBody([proxyRes EXCEPT !.StatusCode = StatusNoContent])
         IN  IF contentTypeOverwrite # ""
             THEN SetContentType(emptied, contentTypeOverwrite)
             ELSE emptied
    ELSE proxyRes

\* modifyResponse := func(proxyRes *http.Response) error, always nil
modifyResponse(proxyRes, prefer204, contentTypeOverwrite) ==
    IF prefer204
    THEN LET emptied == IF proxyRes.StatusCode = StatusNotFound
                        THEN removeBody([proxyRes EXCEPT !.StatusCode = StatusNoContent])
                        ELSE proxyRes
         IN  IF contentTypeOverwrite # ""
             THEN SetContentType(emptied, contentTypeOverwrite)
             ELSE emptied
    ELSE proxyRes

\* func (e *Engine) ReverseProxy(w, r, target, prefer204, contentTypeOverwrite):
\* what the client receives when the upstream answers upstream.res, or cannot
\* be reached (upstream.err: httputil.ReverseProxy answers 502 and does not
\* call ModifyResponse)
ReverseProxy(upstream, prefer204, contentTypeOverwrite) ==
    IF upstream.err
    THEN [StatusCode |-> StatusBadGateway,
          Header |-> [ContentLength |-> <<>>, ContentType |-> <<>>],
          Body |-> <<>>]
    ELSE modifyResponse(upstream.res, prefer204, contentTypeOverwrite)

\* ------------------------------------------------------------------------
\* Startup of the GeoPackage datasource (NewGeoPackage, readGpkgContents,
\* assertIndexExistOnFeatureTables). A configured collection is
\* [ID, DatasourceID] (DatasourceID "" : none configured); a row of the
\* gpkg_contents query is [TableName, Identifier]. A map is a function; the
\* empty map is the empty sequence.
\* ------------------------------------------------------------------------

EmptyMap == <<>>

\* result[key] = value
MapPut(result, key, value) == (key :> value) @@ result

\* func hasMatchingDatasourceID(collection, row) bool
hasMatchingDatasourceID(collection, row) ==
    collection.DatasourceID # "" /\ row.Identifier = collection.DatasourceID

\* the inner loop of readGpkgContents: the first collection, from index i on,
\* that the row matches by identifier or datasource id gets the row
RECURSIVE MatchCollection(_, _, _, _)
MatchCollection(collections, i, row, result) ==
    IF i > Len(collections) THEN result
    ELSE IF row.Identifier = collections[i].ID
    THEN MapPut(result, collections[i].ID, row)
    ELSE IF hasMatchingDatasourceID(collections[i], row)
    THEN MapPut(result, collections[i].ID, row)
    ELSE MatchCollection(collections, i + 1, row, result)

\* the rows.Next() loop of readGpkgContents from row j on: [result, err]
RECURSIVE ScanRows(_, _, _, _)
ScanRows(collections, rows, j, result) ==
    IF j > Len(rows) THEN [result |-> result, err |-> FALSE]
    ELSE IF rows[j].TableName = "" THEN [result |-> EmptyMap, err |-> TRUE]
    ELSE IF Len(collections) = 0
    THEN ScanRows(collections, rows, j + 1, MapPut(result, rows[j].Identifier, rows[j]))
    ELSE ScanRows(collections, rows, j + 1,
                  MatchCollection(collections, 1, rows[j], result))

\* func readGpkgContents(collections, db) (map[string]*featureTable, error)
\* rows: what the gpkg_contents query returns; queryErr: the query fails
readGpkgContents(collections, rows, queryErr) ==
    IF queryErr THEN [result |-> EmptyMap, err |-> TRUE]
    ELSE LET scanned == ScanRows(collections, rows, 1, EmptyMap)
         IN  IF scanned.err THEN scanned
             ELSE IF DOMAIN scanned.result = {}
             THEN [result |-> EmptyMap, err |-> TRUE]
             ELSE scanned

\* strings.Join([]string{g.fidColumn, "minx", "maxx", "miny", "maxy"}, ",")
ExpectedIndexColumns == "fid,minx,maxx,miny,maxy"

\* the index <table>_spatial_idx is absent
NoIndex == ""

\* func (g *GeoPackage) assertIndexExistOnFeatureTables(...): TRUE when it
\* returns, FALSE when it ends the process (log.Fatalf).
\* indexes[t]: the columns of index t_spatial_idx, NoIndex when it is absent
assertIndexExistOnFeatureTables(featureTables, indexes) ==
    \A id \in DOMAIN featureTables :
        /\ indexes[featureTables[id].TableName] # NoIndex
        /\ indexes[featureTables[id].TableName] = ExpectedIndexColumns

\* func NewGeoPackage(collections, gpkgConfig) *GeoPackage:
\* [ok, featureTableByCollectionID]; ok = FALSE when startup ends the process
\* (log.Fatal). gpkg = [backend, connectErr, queryErr, rows, indexes]
NewGeoPackage(collections, gpkg) ==
    LET failed == [ok |-> FALSE, featureTableByCollectionID |-> EmptyMap]
        read == readGpkgContents(collections, gpkg.rows, gpkg.queryErr)
    IN  IF gpkg.backend \notin {"local", "cloud"} THEN failed
        ELSE IF gpkg.connectErr THEN failed
        ELSE IF read.err THEN failed
        ELSE IF ~assertIndexExistOnFeatureTables(read.result, gpkg.indexes) THEN failed
        ELSE [ok |-> TRUE, featureTableByCollectionID |-> read.result]

\* ------------------------------------------------------------------------
\* Serving pages (engine.Engine.ServePage, RenderAndServePage). A call is
\* in = [reqValid, found, respValid, format, mediaType]: whether
\* OpenAPI.validateRequest accepts the request, whether the template is found,
\* whether OpenAPI.validateResponse accepts the output, the format of the
\* template key and its media type (CN.formatToMediaType, "" when none).
\* The outcome is [status, steps, contentType, payload, panicked]: the status
\* written, the steps taken in order, the Content-Type set, whether the
\* payload was written and whether the handler panicked.
\* ------------------------------------------------------------------------

PageOutcome(status, steps, contentType, payload, panicked) ==
    [status |-> status, steps |-> steps, contentType |-> contentType,
     payload |-> payload, panicked |-> panicked]

\* ServePage going on after a request that fails validation
ServePageNoReturn(in) ==
    PageOutcome(StatusBadRequest,
                <<"validateRequest", "getTemplate", "validateResponse", "write">>,
                in.mediaType, TRUE, FALSE)

\* func (e *Engine) ServePage(w, r, templateKey)
ServePage(in) ==
    IF ~in.reqValid
    THEN PageOutcome(StatusBadRequest, <<"validateRequest">>, "", FALSE, FALSE)
    ELSE IF ~in.found
    THEN PageOutcome(StatusNotFound, <<"validateRequest", "getTemplate">>,
                     "", FALSE, FALSE)
    ELSE IF ~in.respValid
    THEN PageOutcome(StatusInternalServerError,
                     <<"validateRequest", "getTemplate", "validateResponse">>,
                     "", FALSE, FALSE)
    ELSE PageOutcome(StatusOK,
                     <<"validateRequest", "getTemplate", "validateResponse", "write">>,
                     in.mediaType, TRUE, FALSE)

\* renderHTMLTemplate for FormatHTML, renderNonHTMLTemplate otherwise
RenderStep(in) ==
    IF in.format = "html" THEN "renderHTMLTemplate" ELSE "renderNonHTMLTemplate"

\* func (e *Engine) RenderAndServePage(w, r, key, params, breadcrumbs).
\* A template that is not found is answered with 500 without a return: the
\* type assertion on the nil template that follows panics.
RenderAndServePage(in) ==
    IF ~in.reqValid
    THEN PageOutcome(StatusBadRequest, <<"validateRequest">>, "", FALSE, FALSE)
    ELSE IF ~in.found
    THEN PageOutcome(StatusInternalServerError, <<"validateRequest", "getTemplate">>,
                     "", FALSE, TRUE)
    ELSE IF ~in.respValid
    THEN PageOutcome(StatusInternalServerError,
                     <<"validateRequest", "getTemplate", RenderStep(in), "validateResponse">>,
                     "", FALSE, FALSE)
    ELSE PageOutcome(StatusOK,
                     <<"validateRequest", "getTemplate", RenderStep(in),
                       "validateResponse", "write">>,
                     in.mediaType, TRUE, FALSE)

\* ------------------------------------------------------------------------
\* Inputs of the codec
\* ------------------------------------------------------------------------

\* the bytes checksums are drawn from: an ordinary byte and the separator
ChecksumBytes == {1, separator}

Checksums == SeqsUpTo(ChecksumBytes, MaxChecksumLen)

\* feature ids handed to encodeCursor: 0 (no prev/next), small ids, ids
\* around the separator's value, and two-byte ids with and without a 0x7C byte
CodecFids == {0, 1, 2, 123, 124, 125, 255, 256, 31744, 31999, 32000}

\* symbols raw cursors are drawn from: 'A' (0), 'B' (1), 'f' (31), '=' ,
\* an invalid character and a newline
RawSymbols == {0, 1, 31, B64Pad, B64Invalid, B64Newline}

RawCursors == SeqsUpTo(RawSymbols, MaxRawLen)

\* decoded byte layouts with more than 8 bytes, or with the int64 sign bit
\* set, before the separator
WideFidBytes ==
    { <<1, 0, 0, 0, 0, 0, 0, 0, 5>>,
      <<128, 0, 0, 0, 0, 0, 0, 0>>,
      <<255, 255, 255, 255, 255, 255, 255, 255>>,
      <<0, 0, 0, 0, 0, 0, 0, 0, 0, 7>>,
      <<1, 128, 0, 0, 0, 0, 0, 0, 1>> }

WideCursors == { EncodeToString(Append(w, separator) \o cs) :
                    w \in WideFidBytes, cs \in Checksums }

VARIABLES
    \* --- cursor codec runs
    cMode,      \* "pair": a cursor made by encodeCursor; "raw": a client string
    cFid,       \* the fid given to encodeCursor
    cCs1,       \* the checksum given to encodeCursor
    cCs2,       \* the expected checksum given to Decode
    cCursor,    \* the EncodedCursor
    cOut,       \* the DecodedCursor returned by Decode
    cPc,        \* "start", "encoded", "decoded"
    \* --- parseLimit runs
    lParam,     \* the limit query parameter
    lCfg,       \* Config.OgcAPI.Features.Limit
    lOut,       \* what parseLimit returned
    lPc,        \* "start", "done"
    \* --- the feature table, the server and a paginating client
    table,      \* the fids stored in the feature table
    cfgLimit,   \* Config.OgcAPI.Features.Limit
    req,        \* the last request the handler served
    resp,       \* its response
    started,    \* the client has sent its first request
    pages,      \* the pages the client received, in order
    snapshot,   \* the table as it was when the last request was served
    firstFid,   \* the fid the cursor of the first request decoded to
    stable,     \* the fids stored during the whole traversal so far
    mods,       \* number of inserts and deletes applied to the table
    \* --- the two feature routes, each request served under two datasource errors
    hRoute,     \* "items": /collections/{id}/items, "item": .../items/{fid}
    hReq,       \* the request
    hTable,     \* the fids stored in the feature table
    hErrs,      \* the datasource error of the first and of the second run
    hResps,     \* the response of the first and of the second run
    hPc,        \* "start", "done"
    \* --- reverse proxy calls
    pPrefer204, \* the prefer204 argument
    pOverwrite, \* the contentTypeOverwrite argument
    pUpstream,  \* what the upstream does: [err, res]
    pOut,       \* the response the client receives
    pPc,        \* "start", "done"
    \* --- startup of the GeoPackage datasource
    gCollections, \* the configured collections
    gGpkg,      \* the GeoPackage and its configuration
    gOut,       \* what NewGeoPackage gave
    gPc,        \* "start", "done"
    \* --- ServePage and RenderAndServePage calls
    pgFn,       \* "ServePage" or "RenderAndServePage"
    pgIn,       \* the call
    pgOut,      \* its outcome
    pgPc,       \* "start", "done"
    \* --- bbox queries following the next fid
    bTable,     \* the fids stored in the feature table
    bOpt,       \* the FeatureOptions of the query: [Cursor, Limit, Bbox]
    bStart,     \* the fid the traversal started at
    bRows,      \* the rows of the last query
    bSeen,      \* the fids of the features of all pages so far
    bPages,     \* number of queries run
    bPc,        \* "query": a query is due, "page": its rows are there
    \* --- Engine.Start and its startServer instances
    shutdownHooks, \* e.shutdownHooks, in registration order
    debugPort,  \* the debugPort argument
    shutdownDelay, \* the shutdownDelay argument
    stopSignal, \* TRUE once SIGINT, SIGTERM or SIGQUIT was received
    srvPc,      \* where each startServer instance is
    srvHook,    \* per instance: the number of hooks it has run
    srvSlept,   \* per instance: TRUE once it slept shutdownDelay seconds
    hookCalls,  \* the hook invocations of the process, in order
    exited,     \* TRUE once Start returned and the process exited
    dsCalls     \* per call of the datasource by a handler: was it closed?

codecVars == <<cMode, cFid, cCs1, cCs2, cCursor, cOut, cPc>>

limitVars == <<lParam, lCfg, lOut, lPc>>

featVars ==
    <<table, cfgLimit, req, resp, started, pages, snapshot, firstFid, stable, mods>>

handlerVars == <<hRoute, hReq, hTable, hErrs, hResps, hPc>>

proxyVars == <<pPrefer204, pOverwrite, pUpstream, pOut, pPc>>

startupVars == <<gCollections, gGpkg, gOut, gPc>>

pageVars == <<pgFn, pgIn, pgOut, pgPc>>

\* the variables of the engine and of the handlers beside pagination
bboxVars == <<bTable, bOpt, bStart, bRows, bSeen, bPages, bPc>>

shutdownVars == <<shutdownHooks, debugPort, shutdownDelay, stopSignal,
                  srvPc, srvHook, srvSlept, hookCalls, exited, dsCalls>>

engineVars == <<handlerVars, proxyVars, startupVars, pageVars, bboxVars,
                shutdownVars>>

vars == <<codecVars, limitVars, featVars, engineVars>>

NoCursor == DecodedCursor(0, <<>>)

\* ------------------------------------------------------------------------
\* Specification SpecCodec: encodeCursor and Decode on drawn inputs
\* ------------------------------------------------------------------------

\* NewCursors calls encodeCursor(fid, filtersChecksum)
CodecEncode ==
    /\ cPc = "start"
    /\ cMode = "pair"
    /\ cCursor' = encodeCursor(cFid, cCs1)
    /\ cPc' = "encoded"
    /\ UNCHANGED <<cMode, cFid, cCs1, cCs2, cOut>>
    /\ UNCHANGED <<limitVars, featVars, engineVars>>

\* the handler calls encodedCursor.Decode(url.checksum())
CodecDecode ==
    /\ \/ cPc = "encoded"
       \/ cPc = "start" /\ cMode = "raw"
    /\ cOut' = Decode(cCursor, cCs2)
    /\ cPc' = "decoded"
    /\ UNCHANGED <<cMode, cFid, cCs1, cCs2, cCursor>>
    /\ UNCHANGED <<limitVars, featVars, engineVars>>

CodecNext == CodecEncode \/ CodecDecode

\* ------------------------------------------------------------------------
\* Specification SpecLimit: parseLimit on drawn parameters and configurations
\* ------------------------------------------------------------------------

\* the characters limit parameters are drawn from
LimitChars == {"0", "1", "2", "9", "-", "+", "a"}

LimitParams == SeqsUpTo(LimitChars, MaxLimitLen)

LimitCfgs == [Default : 0..MaxCfgLimit, Max : 0..MaxCfgLimit]

NoLimit == [limit |-> 0, err |-> FALSE]

\* parseFeatureCollectionRequest calls f.parseLimit(r.URL.Query())
ParseLimit ==
    /\ lPc = "start"
    /\ lOut' = parseLimit(lParam, lCfg)
    /\ lPc' = "done"
    /\ UNCHANGED <<lParam, lCfg>>
    /\ UNCHANGED <<codecVars, featVars, engineVars>>

LimitNext == ParseLimit

\* ------------------------------------------------------------------------
\* Specification SpecFeatures: a client pages through a collection while
\* features are inserted into and deleted from the table
\* ------------------------------------------------------------------------

\* the fids features may have: small ones and the ones around the value of
\* the separator byte
FidUniverse == (1..MaxSmallFid) \cup {123, 124, 125}

\* limit parameters of the client: missing, 0..Max+1, negative, not a number
ClientLimits ==
    {<<>>, <<"-", "1">>, <<"a">>} \cup { <<Digits[n + 1]>> : n \in 0..(MaxLimit + 1) }

\* checksums of the client's filter parameters
ClientChecksums == {<<>>, <<1>>}

\* the cursor of a first request: none, or one kept from an earlier traversal
\* (made for a stored fid, for a fid past the small ones or for the fid with
\* the separator's value, with any checksum)
ClientCursors ==
    {<<>>} \cup { encodeCursor(c, cs) :
                    c \in {MaxSmallFid, MaxSmallFid + 1, 124}, cs \in ClientChecksums }

\* bbox parameters of the client: none, an extent, three values, a letter
ClientBboxes ==
    { <<>>,
      <<"2", ",", "0", ",", "4", ",", "1">>,
      <<"2", ",", "0", ",", "4">>,
      <<"2", ",", "a", ",", "4", ",", "1">> }

\* the first requests of a client: any limit, bbox, checksum and cursor,
\* and requests with a datetime or an unknown parameter
ClientRequests ==
    { [collection |-> "addresses", limit |-> limit, bbox |-> bbox,
       datetime |-> <<>>, unknown |-> FALSE, cursor |-> cursor,
       checksum |-> cs, format |-> "json"] :
         limit \in ClientLimits, bbox \in ClientBboxes,
         cs \in ClientChecksums, cursor \in ClientCursors }
    \cup
    { [collection |-> "addresses", limit |-> <<>>, bbox |-> <<>>,
       datetime |-> datetime, unknown |-> unknown, cursor |-> <<>>,
       checksum |-> <<>>, format |-> "json"] :
         datetime \in {<<>>, <<"2", "0", "2", "3">>}, unknown \in BOOLEAN }

NoRequest ==
    [collection |-> "", limit |-> <<>>, bbox |-> <<>>, datetime |-> <<>>,
     unknown |-> FALSE, cursor |-> <<>>, checksum |-> <<>>, format |-> ""]

NoResponse == ErrorResponse(0)

\* the handler serves request r; the client keeps the page of a 200 response
Serve(r, sqlErr) ==
    /\ req' = r
    /\ resp' = CollectionContent(r, table, cfgLimit, sqlErr)
    /\ pages' = IF resp'.status = StatusOK /\ r.format # "jsonfg"
                THEN Append(pages, resp'.features) ELSE pages
    /\ snapshot' = table
    /\ UNCHANGED <<table, cfgLimit, mods>>
    /\ UNCHANGED <<codecVars, limitVars, engineVars>>

\* GET /collections/{collectionId}/items: the first request of a client
FirstPage ==
    /\ ~started
    /\ \E r \in ClientRequests, sqlErr \in BOOLEAN : Serve(r, sqlErr)
    /\ started' = TRUE
    /\ firstFid' = resp'.opt.Cursor.FID
    /\ stable' = table

\* the client follows the next link of the page it holds: the same request
\* with cursor = cursors.Next
NextPage ==
    /\ started
    /\ resp.status = StatusOK
    /\ resp.cursors.HasNext
    /\ Len(pages) < MaxPages
    /\ \E sqlErr \in BOOLEAN :
            Serve([req EXCEPT !.cursor = resp.cursors.Next], sqlErr)
    /\ UNCHANGED <<started, firstFid, stable>>

\* another process inserts a feature between two page requests
InsertFeature ==
    /\ started
    /\ resp.status = StatusOK
    /\ mods < MaxMods
    /\ \E f \in FidUniverse \ table : table' = table \cup {f}
    /\ mods' = mods + 1
    /\ UNCHANGED <<cfgLimit, req, resp, started, pages, snapshot, firstFid, stable>>
    /\ UNCHANGED <<codecVars, limitVars, engineVars>>

\* another process deletes a feature between two page requests
DeleteFeature ==
    /\ started
    /\ resp.status = StatusOK
    /\ mods < MaxMods
    /\ \E f \in table :
        /\ table' = table \ {f}
        /\ stable' = stable \ {f}
    /\ mods' = mods + 1
    /\ UNCHANGED <<cfgLimit, req, resp, started, pages, snapshot, firstFid>>
    /\ UNCHANGED <<codecVars, limitVars, engineVars>>

FeatNext == FirstPage \/ NextPage \/ InsertFeature \/ DeleteFeature

\* the initial states of SpecCodec: the inputs of one codec run
InitCodec ==
    /\ cPc = "start"
    /\ cOut = NoCursor
    /\ cCs2 \in Checksums
    /\ \/ /\ cMode = "pair"
          /\ cFid \in CodecFids
          /\ cCs1 \in Checksums
          /\ cCursor = <<>>
       \/ /\ cMode = "raw"
          /\ cFid = 0
          /\ cCs1 = <<>>
          /\ cCursor \in RawCursors \cup WideCursors
    /\ lParam = <<>> /\ lCfg = [Default |-> 0, Max |-> 0]
    /\ lOut = NoLimit /\ lPc = "start"
    /\ table = {} /\ cfgLimit = [Default |-> 0, Max |-> 0]
    /\ req = NoRequest /\ resp = NoResponse /\ started = FALSE
    /\ pages = <<>> /\ snapshot = {} /\ firstFid = 0 /\ stable = {} /\ mods = 0
    /\ hRoute = "items" /\ hReq = <<>> /\ hTable = {} /\ hErrs = <<>>
    /\ hResps = <<>> /\ hPc = "start"
    /\ pPrefer204 = FALSE /\ pOverwrite = "" /\ pUpstream = <<>>
    /\ pOut = <<>> /\ pPc = "start"
    /\ gCollections = <<>> /\ gGpkg = <<>> /\ gOut = <<>> /\ gPc = "start"
    /\ pgFn = "ServePage" /\ pgIn = <<>> /\ pgOut = <<>> /\ pgPc = "start"
    /\ bTable = {} /\ bOpt = <<>> /\ bStart = 0 /\ bRows = <<>>
    /\ bSeen = {} /\ bPages = 0 /\ bPc = "query"
    /\ shutdownHooks = <<>> /\ debugPort = 0 /\ shutdownDelay = 0
    /\ stopSignal = FALSE /\ srvPc = <<>> /\ srvHook = <<>>
    /\ srvSlept = <<>> /\ hookCalls = <<>> /\ exited = FALSE
    /\ dsCalls = <<>>

\* the initial states of SpecLimit: a limit parameter and a configuration
InitLimit ==
    /\ lParam \in LimitParams
    /\ lCfg \in LimitCfgs
    /\ lOut = NoLimit
    /\ lPc = "start"
    /\ cMode = "raw" /\ cFid = 0 /\ cCs1 = <<>> /\ cCs2 = <<>>
    /\ cCursor = <<>> /\ cOut = NoCursor /\ cPc = "start"
    /\ table = {} /\ cfgLimit = [Default |-> 0, Max |-> 0]
    /\ req = NoRequest /\ resp = NoResponse /\ started = FALSE
    /\ pages = <<>> /\ snapshot = {} /\ firstFid = 0 /\ stable = {} /\ mods = 0
    /\ hRoute = "items" /\ hReq = <<>> /\ hTable = {} /\ hErrs = <<>>
    /\ hResps = <<>> /\ hPc = "start"
    /\ pPrefer204 = FALSE /\ pOverwrite = "" /\ pUpstream = <<>>
    /\ pOut = <<>> /\ pPc = "start"
    /\ gCollections = <<>> /\ gGpkg = <<>> /\ gOut = <<>> /\ gPc = "start"
    /\ pgFn = "ServePage" /\ pgIn = <<>> /\ pgOut = <<>> /\ pgPc = "start"
    /\ bTable = {} /\ bOpt = <<>> /\ bStart = 0 /\ bRows = <<>>
    /\ bSeen = {} /\ bPages = 0 /\ bPc = "query"
    /\ shutdownHooks = <<>> /\ debugPort = 0 /\ shutdownDelay = 0
    /\ stopSignal = FALSE /\ srvPc = <<>> /\ srvHook = <<>>
    /\ srvSlept = <<>> /\ hookCalls = <<>> /\ exited = FALSE
    /\ dsCalls = <<>>

\* the initial states of SpecFeatures: a feature table, no request served yet
InitFeatures ==
    /\ table \in SUBSET FidUniverse
    /\ cfgLimit = [Default |-> 1, Max |-> MaxLimit]
    /\ req = NoRequest
    /\ resp = NoResponse
    /\ started = FALSE
    /\ pages = <<>>
    /\ snapshot = {}
    /\ firstFid = 0
    /\ stable = {}
    /\ mods = 0
    /\ cMode = "raw" /\ cFid = 0 /\ cCs1 = <<>> /\ cCs2 = <<>>
    /\ cCursor = <<>> /\ cOut = NoCursor /\ cPc = "start"
    /\ lParam = <<>> /\ lCfg = [Default |-> 0, Max |-> 0]
    /\ lOut = NoLimit /\ lPc = "start"
    /\ hRoute = "items" /\ hReq = <<>> /\ hTable = {} /\ hErrs = <<>>
    /\ hResps = <<>> /\ hPc = "start"
    /\ pPrefer204 = FALSE /\ pOverwrite = "" /\ pUpstream = <<>>
    /\ pOut = <<>> /\ pPc = "start"
    /\ gCollections = <<>> /\ gGpkg = <<>> /\ gOut = <<>> /\ gPc = "start"
    /\ pgFn = "ServePage" /\ pgIn = <<>> /\ pgOut = <<>> /\ pgPc = "start"
    /\ bTable = {} /\ bOpt = <<>> /\ bStart = 0 /\ bRows = <<>>
    /\ bSeen = {} /\ bPages = 0 /\ bPc = "query"
    /\ shutdownHooks = <<>> /\ debugPort = 0 /\ shutdownDelay = 0
    /\ stopSignal = FALSE /\ srvPc = <<>> /\ srvHook = <<>>
    /\ srvSlept = <<>> /\ hookCalls = <<>> /\ exited = FALSE
    /\ dsCalls = <<>>

SpecCodec == InitCodec /\ [][CodecNext]_vars

SpecLimit == InitLimit /\ [][LimitNext]_vars

SpecFeatures == InitFeatures /\ [][FeatNext]_vars

\* ------------------------------------------------------------------------
\* The two feature routes (main.go, NewFeatures): every request is served
\* twice, the datasource failing with hErrs[1] in the first run and with
\* hErrs[2] in the second (NoError: it does not fail).
\* ------------------------------------------------------------------------

\* limit configuration of the handlers
HandlerLimits == [Default |-> 1, Max |-> MaxLimit]

\* the errors a query of the datasource ends with
DatasourceErrors == {NoError, "database is locked", "no such table: addresses"}

\* the formats content negotiation gives
Formats == {"html", "json", "jsonfg", "other"}

\* requests of both routes: the collection and feature id of the path, a
\* limit, an unknown parameter or none, the negotiated format
HandlerRequests ==
    { [collection |-> collection, featureId |-> featureId, limit |-> limit,
       bbox |-> <<>>, datetime |-> <<>>, unknown |-> unknown, cursor |-> <<>>,
       checksum |-> <<>>, format |-> format] :
         collection \in {"addresses", "buildings", "unknown"},
         featureId \in {<<"1">>, <<"9">>, <<"a">>},
         limit \in {<<>>, <<"a">>},
         unknown \in BOOLEAN,
         format \in Formats }

\* router.Get(".../collections/{collectionId}/items", f.CollectionContent())
HandleItems ==
    /\ hPc = "start"
    /\ hRoute = "items"
    /\ hResps' = <<ItemsResponse(hReq, hTable, HandlerLimits, hErrs[1]),
                   ItemsResponse(hReq, hTable, HandlerLimits, hErrs[2])>>
    /\ hPc' = "done"
    /\ UNCHANGED <<hRoute, hReq, hTable, hErrs>>
    /\ UNCHANGED <<codecVars, limitVars, featVars>>
    /\ UNCHANGED <<proxyVars, startupVars, pageVars, bboxVars, shutdownVars>>

\* router.Get(".../collections/{collectionId}/items/{featureId}", f.Feature())
HandleItem ==
    /\ hPc = "start"
    /\ hRoute = "item"
    /\ hResps' = <<Feature(hReq, hTable, hErrs[1]), Feature(hReq, hTable, hErrs[2])>>
    /\ hPc' = "done"
    /\ UNCHANGED <<hRoute, hReq, hTable, hErrs>>
    /\ UNCHANGED <<codecVars, limitVars, featVars>>
    /\ UNCHANGED <<proxyVars, startupVars, pageVars, bboxVars, shutdownVars>>

HandlerNext == HandleItems \/ HandleItem

\* the initial states of SpecHandlers: a route, a request, a table and the
\* datasource errors of the two runs
InitHandlers ==
    /\ hRoute \in {"items", "item"}
    /\ hReq \in HandlerRequests
    /\ hTable \in {{}, 1..MaxSmallFid}
    /\ hErrs \in DatasourceErrors \X DatasourceErrors
    /\ hResps = <<>>
    /\ hPc = "start"
    /\ cMode = "raw" /\ cFid = 0 /\ cCs1 = <<>> /\ cCs2 = <<>>
    /\ cCursor = <<>> /\ cOut = NoCursor /\ cPc = "start"
    /\ lParam = <<>> /\ lCfg = [Default |-> 0, Max |-> 0]
    /\ lOut = NoLimit /\ lPc = "start"
    /\ table = {} /\ cfgLimit = [Default |-> 0, Max |-> 0]
    /\ req = NoRequest /\ resp = NoResponse /\ started = FALSE
    /\ pages = <<>> /\ snapshot = {} /\ firstFid = 0 /\ stable = {} /\ mods = 0
    /\ pPrefer204 = FALSE /\ pOverwrite = "" /\ pUpstream = <<>>
    /\ pOut = <<>> /\ pPc = "start"
    /\ gCollections = <<>> /\ gGpkg = <<>> /\ gOut = <<>> /\ gPc = "start"
    /\ pgFn = "ServePage" /\ pgIn = <<>> /\ pgOut = <<>> /\ pgPc = "start"
    /\ bTable = {} /\ bOpt = <<>> /\ bStart = 0 /\ bRows = <<>>
    /\ bSeen = {} /\ bPages = 0 /\ bPc = "query"
    /\ shutdownHooks = <<>> /\ debugPort = 0 /\ shutdownDelay = 0
    /\ stopSignal = FALSE /\ srvPc = <<>> /\ srvHook = <<>>
    /\ srvSlept = <<>> /\ hookCalls = <<>> /\ exited = FALSE
    /\ dsCalls = <<>>

SpecHandlers == InitHandlers /\ [][HandlerNext]_vars

\* ------------------------------------------------------------------------
\* Reverse proxy calls
\* ------------------------------------------------------------------------

\* the Content-Length header of a body
ContentLengthOf(body) == <<Digits[Len(body) + 1]>>

\* the responses of the upstream
UpstreamResponses ==
    { [StatusCode |-> status,
       Header |-> [ContentLength |-> ContentLengthOf(body), ContentType |-> ct],
       Body |-> body] :
         status \in {StatusOK, StatusNotFound, StatusInternalServerError},
         ct \in {<<>>, <<"text/plain">>, <<"application/vnd.mapbox-vector-tile">>},
         body \in {<<>>, <<1>>, <<1, 2>>} }

NoUpstreamResponse ==
    [StatusCode |-> 0, Header |-> [ContentLength |-> <<>>, ContentType |-> <<>>],
     Body |-> <<>>]

\* the upstream answers, or cannot be reached
Upstreams ==
    { [err |-> FALSE, res |-> res] : res \in UpstreamResponses }
    \cup {[err |-> TRUE, res |-> NoUpstreamResponse]}

\* one call of e.ReverseProxy(w, r, target, prefer204, contentTypeOverwrite)
Proxy ==
    /\ pPc = "start"
    /\ pOut' = ReverseProxy(pUpstream, pPrefer204, pOverwrite)
    /\ pPc' = "done"
    /\ UNCHANGED <<pPrefer204, pOverwrite, pUpstream>>
    /\ UNCHANGED <<codecVars, limitVars, featVars>>
    /\ UNCHANGED <<handlerVars, startupVars, pageVars, bboxVars, shutdownVars>>

ProxyNext == Proxy

\* the initial states of SpecProxy: the arguments and the upstream
InitProxy ==
    /\ pPrefer204 \in BOOLEAN
    /\ pOverwrite \in {"", "application/x-protobuf"}
    /\ pUpstream \in Upstreams
    /\ pOut = <<>>
    /\ pPc = "start"
    /\ cMode = "raw" /\ cFid = 0 /\ cCs1 = <<>> /\ cCs2 = <<>>
    /\ cCursor = <<>> /\ cOut = NoCursor /\ cPc = "start"
    /\ lParam = <<>> /\ lCfg = [Default |-> 0, Max |-> 0]
    /\ lOut = NoLimit /\ lPc = "start"
    /\ table = {} /\ cfgLimit = [Default |-> 0, Max |-> 0]
    /\ req = NoRequest /\ resp = NoResponse /\ started = FALSE
    /\ pages = <<>> /\ snapshot = {} /\ firstFid = 0 /\ stable = {} /\ mods = 0
    /\ hRoute = "items" /\ hReq = <<>> /\ hTable = {} /\ hErrs = <<>>
    /\ hResps = <<>> /\ hPc = "start"
    /\ gCollections = <<>> /\ gGpkg = <<>> /\ gOut = <<>> /\ gPc = "start"
    /\ pgFn = "ServePage" /\ pgIn = <<>> /\ pgOut = <<>> /\ pgPc = "start"
    /\ bTable = {} /\ bOpt = <<>> /\ bStart = 0 /\ bRows = <<>>
    /\ bSeen = {} /\ bPages = 0 /\ bPc = "query"
    /\ shutdownHooks = <<>> /\ debugPort = 0 /\ shutdownDelay = 0
    /\ stopSignal = FALSE /\ srvPc = <<>> /\ srvHook = <<>>
    /\ srvSlept = <<>> /\ hookCalls = <<>> /\ exited = FALSE
    /\ dsCalls = <<>>

SpecProxy == InitProxy /\ [][ProxyNext]_vars

\* ------------------------------------------------------------------------
\* Startup of the GeoPackage datasource
\* ------------------------------------------------------------------------

\* the collections a configuration can name
CollectionConfigs ==
    { [ID |-> "a", DatasourceID |-> ""],
      [ID |-> "b", DatasourceID |-> ""],
      [ID |-> "b", DatasourceID |-> "x"] }

\* configurations of at most MaxCollections collections with distinct ids
Configurations ==
    { cs \in UNION { [1..n -> CollectionConfigs] : n \in 0..MaxCollections } :
        \A i, j \in DOMAIN cs : i # j => cs[i].ID # cs[j].ID }

\* the rows gpkg_contents can hold: tables ta, tb, tx with identifiers a, b, x
\* and a row with a blank table name
GpkgRows ==
    { [TableName |-> "ta", Identifier |-> "a"],
      [TableName |-> "tb", Identifier |-> "b"],
      [TableName |-> "tx", Identifier |-> "x"],
      [TableName |-> "", Identifier |-> "a"] }

\* results of the gpkg_contents query: at most MaxRows rows, no row twice
GpkgContents ==
    { rows \in UNION { [1..n -> GpkgRows] : n \in 0..MaxRows } :
        \A i, j \in DOMAIN rows : i # j => rows[i] # rows[j] }

\* the spatial indexes: all as expected, or one absent or in another order
GpkgIndexes ==
    { ix \in [{"ta", "tb", "tx"} ->
                {ExpectedIndexColumns, NoIndex, "fid,maxx,minx,miny,maxy"}] :
        Cardinality({ t \in DOMAIN ix : ix[t] # ExpectedIndexColumns }) <= 1 }

\* geopackage.NewGeoPackage(collections, gpkgConfig)
Startup ==
    /\ gPc = "start"
    /\ gOut' = NewGeoPackage(gCollections, gGpkg)
    /\ gPc' = "done"
    /\ UNCHANGED <<gCollections, gGpkg>>
    /\ UNCHANGED <<codecVars, limitVars, featVars>>
    /\ UNCHANGED <<handlerVars, proxyVars, pageVars, bboxVars, shutdownVars>>

StartupNext == Startup

\* the initial states of SpecStartup: a configuration and a GeoPackage
InitStartup ==
    /\ gCollections \in Configurations
    /\ gGpkg \in [backend : {"local", "none"}, connectErr : BOOLEAN,
                  queryErr : BOOLEAN, rows : GpkgContents, indexes : GpkgIndexes]
    /\ gOut = <<>>
    /\ gPc = "start"
    /\ cMode = "raw" /\ cFid = 0 /\ cCs1 = <<>> /\ cCs2 = <<>>
    /\ cCursor = <<>> /\ cOut = NoCursor /\ cPc = "start"
    /\ lParam = <<>> /\ lCfg = [Default |-> 0, Max |-> 0]
    /\ lOut = NoLimit /\ lPc = "start"
    /\ table = {} /\ cfgLimit = [Default |-> 0, Max |-> 0]
    /\ req = NoRequest /\ resp = NoResponse /\ started = FALSE
    /\ pages = <<>> /\ snapshot = {} /\ firstFid = 0 /\ stable = {} /\ mods = 0
    /\ hRoute = "items" /\ hReq = <<>> /\ hTable = {} /\ hErrs = <<>>
    /\ hResps = <<>> /\ hPc = "start"
    /\ pPrefer204 = FALSE /\ pOverwrite = "" /\ pUpstream = <<>>
    /\ pOut = <<>> /\ pPc = "start"
    /\ pgFn = "ServePage" /\ pgIn = <<>> /\ pgOut = <<>> /\ pgPc = "start"
    /\ bTable = {} /\ bOpt = <<>> /\ bStart = 0 /\ bRows = <<>>
    /\ bSeen = {} /\ bPages = 0 /\ bPc = "query"
    /\ shutdownHooks = <<>> /\ debugPort = 0 /\ shutdownDelay = 0
    /\ stopSignal = FALSE /\ srvPc = <<>> /\ srvHook = <<>>
    /\ srvSlept = <<>> /\ hookCalls = <<>> /\ exited = FALSE
    /\ dsCalls = <<>>

SpecStartup == InitStartup /\ [][StartupNext]_vars

\* ------------------------------------------------------------------------
\* ServePage and RenderAndServePage calls
\* ------------------------------------------------------------------------

\* the calls: any outcome of the two validations and of the template lookup
PageCalls ==
    [reqValid : BOOLEAN, found : BOOLEAN, respValid : BOOLEAN,
     format : {"html", "json"}, mediaType : {"", "text/html", "application/json"}]

\* e.ServePage(w, r, templateKey)
CallServePage ==
    /\ pgPc = "start"
    /\ pgFn = "ServePage"
    /\ pgOut' = ServePage(pgIn)
    /\ pgPc' = "done"
    /\ UNCHANGED <<pgFn, pgIn>>
    /\ UNCHANGED <<codecVars, limitVars, featVars>>
    /\ UNCHANGED <<handlerVars, proxyVars, startupVars, bboxVars, shutdownVars>>

\* e.RenderAndServePage(w, r, key, params, breadcrumbs)
CallRenderAndServePage ==
    /\ pgPc = "start"
    /\ pgFn = "RenderAndServePage"
    /\ pgOut' = RenderAndServePage(pgIn)
    /\ pgPc' = "done"
    /\ UNCHANGED <<pgFn, pgIn>>
    /\ UNCHANGED <<codecVars, limitVars, featVars>>
    /\ UNCHANGED <<handlerVars, proxyVars, startupVars, bboxVars, shutdownVars>>

PageNext == CallServePage \/ CallRenderAndServePage

\* the initial states of SpecPages: a function and a call
InitPages ==
    /\ pgFn \in {"ServePage", "RenderAndServePage"}
    /\ pgIn \in PageCalls
    /\ pgOut = <<>>
    /\ pgPc = "start"
    /\ cMode = "raw" /\ cFid = 0 /\ cCs1 = <<>> /\ cCs2 = <<>>
    /\ cCursor = <<>> /\ cOut = NoCursor /\ cPc = "start"
    /\ lParam = <<>> /\ lCfg = [Default |-> 0, Max |-> 0]
    /\ lOut = NoLimit /\ lPc = "start"
    /\ table = {} /\ cfgLimit = [Default |-> 0, Max |-> 0]
    /\ req = NoRequest /\ resp = NoResponse /\ started = FALSE
    /\ pages = <<>> /\ snapshot = {} /\ firstFid = 0 /\ stable = {} /\ mods = 0
    /\ hRoute = "items" /\ hReq = <<>> /\ hTable = {} /\ hErrs = <<>>
    /\ hResps = <<>> /\ hPc = "start"
    /\ pPrefer204 = FALSE /\ pOverwrite = "" /\ pUpstream = <<>>
    /\ pOut = <<>> /\ pPc = "start"
    /\ gCollections = <<>> /\ gGpkg = <<>> /\ gOut = <<>> /\ gPc = "start"
    /\ bTable = {} /\ bOpt = <<>> /\ bStart = 0 /\ bRows = <<>>
    /\ bSeen = {} /\ bPages = 0 /\ bPc = "query"
    /\ shutdownHooks = <<>> /\ debugPort = 0 /\ shutdownDelay = 0
    /\ stopSignal = FALSE /\ srvPc = <<>> /\ srvHook = <<>>
    /\ srvSlept = <<>> /\ hookCalls = <<>> /\ exited = FALSE
    /\ dsCalls = <<>>

SpecPages == InitPages /\ [][PageNext]_vars

\* ------------------------------------------------------------------------
\* Engine.Start, startServer and the shutdown hooks (engine.go). The process
\* runs up to two startServer instances: "main", called by Start, and "debug",
\* called in a goroutine of Start when debugPort > 0. An instance is
\*   "absent"   not called            "spawned"  its goroutine is created
\*   "waiting"  at <-ctx.Done()       "hooks"    in the loop over the hooks
\*   "delay"    before time.Sleep     "shutdown" before server.Shutdown
\*   "returned" server.Shutdown was called and startServer returned
\* A hook is a number of 1..MaxHooks; a hook invocation is [by, hook].
\* ------------------------------------------------------------------------

Servers == {"main", "debug"}

\* the shutdownDelay argument of an instance: Start passes its own to the
\* main server and 0 to the debug server
DelayOf(name) == IF name = "main" THEN shutdownDelay ELSE 0

\* server.Shutdown right after the hooks, whatever the delay
AfterHooksNoSleep(delay) == "shutdown"

\* if shutdownDelay > 0 { time.Sleep(...) }: where startServer goes after the
\* loop over the hooks
AfterHooks(delay) == IF delay > 0 THEN "delay" ELSE "shutdown"

\* func (e *Engine) RegisterShutdownHook(fn func()), called while the
\* components are built, before Start
RegisterShutdownHook ==
    /\ ~exited
    /\ srvPc["main"] = "absent"
    /\ Len(shutdownHooks) < MaxHooks
    /\ \E fn \in 1..MaxHooks :
            /\ \A i \in DOMAIN shutdownHooks : shutdownHooks[i] # fn
            /\ shutdownHooks' = Append(shutdownHooks, fn)
    /\ UNCHANGED <<debugPort, shutdownDelay, stopSignal, srvPc, srvHook,
                   srvSlept, hookCalls, exited,
                   dsCalls>>
    /\ UNCHANGED <<codecVars, limitVars, featVars>>
    /\ UNCHANGED <<handlerVars, proxyVars, startupVars, pageVars, bboxVars>>

\* func (e *Engine) Start(...): creates the goroutine of the debug server when
\* debugPort > 0 and calls startServer for the main server, which runs up to
\* <-ctx.Done()
Start ==
    /\ ~exited
    /\ srvPc["main"] = "absent"
    /\ srvPc' = [srvPc EXCEPT !["main"] = "waiting",
                              !["debug"] = IF debugPort > 0 THEN "spawned" ELSE @]
    /\ UNCHANGED <<shutdownHooks, debugPort, shutdownDelay, stopSignal, srvHook,
                   srvSlept, hookCalls, exited,
                   dsCalls>>
    /\ UNCHANGED <<codecVars, limitVars, featVars>>
    /\ UNCHANGED <<handlerVars, proxyVars, startupVars, pageVars, bboxVars>>

\* the goroutine of the debug server calls startServer, which runs up to
\* <-ctx.Done()
StartDebugServer ==
    /\ ~exited
    /\ srvPc["debug"] = "spawned"
    /\ srvPc' = [srvPc EXCEPT !["debug"] = "waiting"]
    /\ UNCHANGED <<shutdownHooks, debugPort, shutdownDelay, stopSignal, srvHook,
                   srvSlept, hookCalls, exited,
                   dsCalls>>
    /\ UNCHANGED <<codecVars, limitVars, featVars>>
    /\ UNCHANGED <<handlerVars, proxyVars, startupVars, pageVars, bboxVars>>

\* server.ListenAndServe() of an instance fails: log.Fatalf ends the process
ListenFails(name) ==
    /\ ~exited
    /\ srvPc[name] = "waiting"
    /\ exited' = TRUE
    /\ UNCHANGED <<shutdownHooks, debugPort, shutdownDelay, stopSignal, srvPc,
                   srvHook, srvSlept, hookCalls,
                   dsCalls>>
    /\ UNCHANGED <<codecVars, limitVars, featVars>>
    /\ UNCHANGED <<handlerVars, proxyVars, startupVars, pageVars, bboxVars>>

\* SIGINT, SIGTERM or SIGQUIT arrives: the context of every instance that
\* has called signal.NotifyContext is done, <-ctx.Done() returns
StopSignal ==
    /\ ~exited
    /\ ~stopSignal
    /\ srvPc["main"] = "waiting"
    /\ stopSignal' = TRUE
    /\ srvPc' = [name \in Servers |->
                    IF srvPc[name] = "waiting" THEN "hooks" ELSE srvPc[name]]
    /\ UNCHANGED <<shutdownHooks, debugPort, shutdownDelay, srvHook, srvSlept,
                   hookCalls, exited,
                   dsCalls>>
    /\ UNCHANGED <<codecVars, limitVars, featVars>>
    /\ UNCHANGED <<handlerVars, proxyVars, startupVars, pageVars, bboxVars>>

\* for _, shutdownHook := range e.shutdownHooks { shutdownHook() }: one
\* iteration by one instance
RunHook(name) ==
    /\ ~exited
    /\ srvPc[name] = "hooks"
    /\ srvHook[name] < Len(shutdownHooks)
    /\ hookCalls' = Append(hookCalls, [by |-> name,
                                       hook |-> shutdownHooks[srvHook[name] + 1]])
    /\ srvHook' = [srvHook EXCEPT ![name] = @ + 1]
    /\ UNCHANGED <<shutdownHooks, debugPort, shutdownDelay, stopSignal, srvPc,
                   srvSlept, exited,
                   dsCalls>>
    /\ UNCHANGED <<codecVars, limitVars, featVars>>
    /\ UNCHANGED <<handlerVars, proxyVars, startupVars, pageVars, bboxVars>>

\* the loop over the hooks of an instance ends
HooksDone(name) ==
    /\ ~exited
    /\ srvPc[name] = "hooks"
    /\ srvHook[name] = Len(shutdownHooks)
    /\ srvPc' = [srvPc EXCEPT ![name] = AfterHooks(DelayOf(name))]
    /\ UNCHANGED <<shutdownHooks, debugPort, shutdownDelay, stopSignal, srvHook,
                   srvSlept, hookCalls, exited,
                   dsCalls>>
    /\ UNCHANGED <<codecVars, limitVars, featVars>>
    /\ UNCHANGED <<handlerVars, proxyVars, startupVars, pageVars, bboxVars>>

\* time.Sleep(time.Duration(shutdownDelay) * time.Second)
Sleep(name) ==
    /\ ~exited
    /\ srvPc[name] = "delay"
    /\ srvSlept' = [srvSlept EXCEPT ![name] = TRUE]
    /\ srvPc' = [srvPc EXCEPT ![name] = "shutdown"]
    /\ UNCHANGED <<shutdownHooks, debugPort, shutdownDelay, stopSignal, srvHook,
                   hookCalls, exited,
                   dsCalls>>
    /\ UNCHANGED <<codecVars, limitVars, featVars>>
    /\ UNCHANGED <<handlerVars, proxyVars, startupVars, pageVars, bboxVars>>

\* return server.Shutdown(timeoutCtx), with or without an error. When the
\* main server returns, Start and the process end; an error of the debug
\* server ends the process (log.Fatalf).
ServerShutdown(name) ==
    /\ ~exited
    /\ srvPc[name] = "shutdown"
    /\ srvPc' = [srvPc EXCEPT ![name] = "returned"]
    /\ \E err \in BOOLEAN : exited' = (name = "main" \/ err)
    /\ UNCHANGED <<shutdownHooks, debugPort, shutdownDelay, stopSignal, srvHook,
                   srvSlept, hookCalls,
                   dsCalls>>
    /\ UNCHANGED <<codecVars, limitVars, featVars>>
    /\ UNCHANGED <<handlerVars, proxyVars, startupVars, pageVars, bboxVars>>

\* the datasource.Close hook that NewFeatures registers
CloseHook == 1

\* g.backend.close() has been called
DatasourceClosed == \E i \in DOMAIN hookCalls : hookCalls[i].hook = CloseHook

\* the main server serves a feature request: the handler calls
\* f.datasource.GetFeatures or GetFeature. The server accepts requests from
\* ListenAndServe until server.Shutdown is called.
HandleFeatureRequest ==
    /\ ~exited
    /\ srvPc["main"] \in {"waiting", "hooks", "delay", "shutdown"}
    /\ \E i \in DOMAIN shutdownHooks : shutdownHooks[i] = CloseHook
    /\ Len(dsCalls) < MaxRequests
    /\ dsCalls' = Append(dsCalls, DatasourceClosed)
    /\ UNCHANGED <<shutdownHooks, debugPort, shutdownDelay, stopSignal, srvPc,
                   srvHook, srvSlept, hookCalls, exited>>
    /\ UNCHANGED <<codecVars, limitVars, featVars>>
    /\ UNCHANGED <<handlerVars, proxyVars, startupVars, pageVars, bboxVars>>

ShutdownNext ==
    \/ RegisterShutdownHook
    \/ HandleFeatureRequest
    \/ Start
    \/ StartDebugServer
    \/ StopSignal
    \/ \E name \in Servers :
          \/ ListenFails(name)
          \/ RunHook(name)
          \/ HooksDone(name)
          \/ Sleep(name)
          \/ ServerShutdown(name)

\* the initial states of SpecShutdown: a new Engine, the arguments of Start
InitShutdown ==
    /\ shutdownHooks = <<>>
    /\ debugPort \in {0, 9001}
    /\ shutdownDelay \in 0..MaxShutdownDelay
    /\ stopSignal = FALSE
    /\ srvPc = [name \in Servers |-> "absent"]
    /\ srvHook = [name \in Servers |-> 0]
    /\ srvSlept = [name \in Servers |-> FALSE]
    /\ hookCalls = <<>>
    /\ exited = FALSE
    /\ dsCalls = <<>>
    /\ cMode = "raw" /\ cFid = 0 /\ cCs1 = <<>> /\ cCs2 = <<>>
    /\ cCursor = <<>> /\ cOut = NoCursor /\ cPc = "start"
    /\ lParam = <<>> /\ lCfg = [Default |-> 0, Max |-> 0]
    /\ lOut = NoLimit /\ lPc = "start"
    /\ table = {} /\ cfgLimit = [Default |-> 0, Max |-> 0]
    /\ req = NoRequest /\ resp = NoResponse /\ started = FALSE
    /\ pages = <<>> /\ snapshot = {} /\ firstFid = 0 /\ stable = {} /\ mods = 0
    /\ hRoute = "items" /\ hReq = <<>> /\ hTable = {} /\ hErrs = <<>>
    /\ hResps = <<>> /\ hPc = "start"
    /\ pPrefer204 = FALSE /\ pOverwrite = "" /\ pUpstream = <<>>
    /\ pOut = <<>> /\ pPc = "start"
    /\ gCollections = <<>> /\ gGpkg = <<>> /\ gOut = <<>> /\ gPc = "start"
    /\ pgFn = "ServePage" /\ pgIn = <<>> /\ pgOut = <<>> /\ pgPc = "start"
    /\ bTable = {} /\ bOpt = <<>> /\ bStart = 0 /\ bRows = <<>>
    /\ bSeen = {} /\ bPages = 0 /\ bPc = "query"

SpecShutdown == InitShutdown /\ [][ShutdownNext]_vars

\* ------------------------------------------------------------------------
\* Bbox queries of the datasource: a query with a bbox, the queries that
\* follow its next fid and its prev fid.
\* ------------------------------------------------------------------------

\* the fids of the small feature tables; a feature with fid f lies at PointOf(f)
BboxFids == (1..MaxSmallFid) \cup {5, 12, 13}

\* the small feature tables
SmallTables == SUBSET BboxFids

\* the feature tables with bboxSizeBig features, or one less
BigTables == {1..bboxSizeBig, 1..(bboxSizeBig - 1)}

\* the bboxes asked for: all features, some, a reversed one that holds none,
\* one beside all features
QueryBboxes == {<<0, 0, 9, 9>>, <<2, 0, 4, 1>>, <<4, 0, 2, 1>>, <<0, 1, 9, 9>>}

\* the first queries: any bbox and limit, a cursor at the start, within or
\* near the end of the table
Queries(fids) ==
    [Cursor : {DecodedCursor(fid, <<>>) : fid \in fids},
     Limit : 1..MaxLimit, Bbox : QueryBboxes]

\* the fids of the rows of a query
RowFids(rows) == { rows[i].fid : i \in DOMAIN rows }

\* g.makeFeaturesQuery(table, options) with a bbox, run by GetFeatures
BboxQuery ==
    /\ bPc = "query"
    /\ bPages < MaxQueries
    /\ bRows' = makeFeaturesQuery(bTable, bOpt)
    /\ bSeen' = bSeen \cup RowFids(bRows')
    /\ bPages' = bPages + 1
    /\ bPc' = "page"
    /\ UNCHANGED <<bTable, bOpt, bStart>>
    /\ UNCHANGED <<codecVars, limitVars, featVars>>
    /\ UNCHANGED <<handlerVars, proxyVars, startupVars, pageVars, shutdownVars>>

\* the next query has the nextfid of the first row as cursor
FollowNext ==
    /\ bPc = "page"
    /\ bRows # <<>>
    /\ bRows[1].nextfid # <<>>
    /\ bOpt' = [bOpt EXCEPT !.Cursor.FID = bRows[1].nextfid[1]]
    /\ bPc' = "query"
    /\ UNCHANGED <<bTable, bStart, bRows, bSeen, bPages>>
    /\ UNCHANGED <<codecVars, limitVars, featVars>>
    /\ UNCHANGED <<handlerVars, proxyVars, startupVars, pageVars, shutdownVars>>

\* the next query has the prevfid of the first row as cursor
FollowPrev ==
    /\ bPc = "page"
    /\ bRows # <<>>
    /\ bRows[1].prevfid # <<>>
    /\ bOpt' = [bOpt EXCEPT !.Cursor.FID = bRows[1].prevfid[1]]
    /\ bStart' = Min(bStart, bRows[1].prevfid[1])
    /\ bPc' = "query"
    /\ UNCHANGED <<bTable, bRows, bSeen, bPages>>
    /\ UNCHANGED <<codecVars, limitVars, featVars>>
    /\ UNCHANGED <<handlerVars, proxyVars, startupVars, pageVars, shutdownVars>>

BboxNext == BboxQuery \/ FollowNext \/ FollowPrev

\* the initial states of SpecBbox: a table, a bbox, a limit and a cursor fid
InitBbox ==
    /\ \/ /\ bTable \in SmallTables
          /\ bOpt \in Queries({0, MaxSmallFid})
       \/ /\ bTable \in BigTables
          /\ bOpt \in Queries({0, bboxSizeBig - MaxSmallFid})
    /\ bStart = bOpt.Cursor.FID
    /\ bRows = <<>>
    /\ bSeen = {}
    /\ bPages = 0
    /\ bPc = "query"
    /\ cMode = "raw" /\ cFid = 0 /\ cCs1 = <<>> /\ cCs2 = <<>>
    /\ cCursor = <<>> /\ cOut = NoCursor /\ cPc = "start"
    /\ lParam = <<>> /\ lCfg = [Default |-> 0, Max |-> 0]
    /\ lOut = NoLimit /\ lPc = "start"
    /\ table = {} /\ cfgLimit = [Default |-> 0, Max |-> 0]
    /\ req = NoRequest /\ resp = NoResponse /\ started = FALSE
    /\ pages = <<>> /\ snapshot = {} /\ firstFid = 0 /\ stable = {} /\ mods = 0
    /\ hRoute = "items" /\ hReq = <<>> /\ hTable = {} /\ hErrs = <<>>
    /\ hResps = <<>> /\ hPc = "start"
    /\ pPrefer204 = FALSE /\ pOverwrite = "" /\ pUpstream = <<>>
    /\ pOut = <<>> /\ pPc = "start"
    /\ gCollections = <<>> /\ gGpkg = <<>> /\ gOut = <<>> /\ gPc = "start"
    /\ pgFn = "ServePage" /\ pgIn = <<>> /\ pgOut = <<>> /\ pgPc = "start"
    /\ shutdownHooks = <<>> /\ debugPort = 0 /\ shutdownDelay = 0
    /\ stopSignal = FALSE /\ srvPc = <<>> /\ srvHook = <<>>
    /\ srvSlept = <<>> /\ hookCalls = <<>> /\ exited = FALSE
    /\ dsCalls = <<>>

SpecBbox == InitBbox /\ [][BboxNext]_vars

\* ------------------------------------------------------------------------
\* Claims about the cursor codec, checked under SpecCodec
\* ------------------------------------------------------------------------

\* C1: cursor round trip. Decoding the cursor made by encodeCursor(fid, cs)
\* with the expected checksum cs returns exactly (fid, cs), for every
\* fid >= 0 and every checksum cs.
C1_RoundTrip ==
    (cPc = "decoded" /\ cMode = "pair" /\ cCs1 = cCs2)
        => cOut = DecodedCursor(cFid, cCs1)

\* C2: filter tampering detection. Decoding the cursor made by
\* encodeCursor(fid, cs1) with an expected checksum cs2 # cs1 returns (0, cs2).
C2_TamperDetected ==
    (cPc = "decoded" /\ cMode = "pair" /\ cCs1 # cCs2)
        => cOut = DecodedCursor(0, cCs2)

\* C7: Decode is total and defensive. For every input string and every
\* expected checksum the result has FID >= 0 and carries the expected
\* checksum; the empty string and every base64 error give FID 0.
C7_DecodeDefensive ==
    cPc = "decoded" =>
        /\ cOut.FID >= 0
        /\ cOut.FiltersChecksum = cCs2
        /\ (cCursor = <<>> \/ DecodeString(cCursor).err) => cOut.FID = 0

\* a cursor whose fid bytes have the int64 sign bit set, with the expected
\* checksum behind the separator, has been decoded to fid 0
C7_Witness ==
    /\ cPc = "decoded"
    /\ cMode = "raw"
    /\ cCs2 = <<1>>
    /\ cCursor = EncodeToString(<<128, 0, 0, 0, 0, 0, 0, 0, separator, 1>>)
    /\ cOut = DecodedCursor(0, <<1>>)

\* C8: a cursor whose decoded bytes hold no 0x7C separator decodes to
\* (0, expectedChecksum), whatever bytes it carries.
C8_NoSeparatorFirstPage ==
    (/\ cPc = "decoded"
     /\ ~DecodeString(cCursor).err
     /\ \A i \in 1..Len(DecodeString(cCursor).bytes) :
            DecodeString(cCursor).bytes[i] # separator)
        => cOut = DecodedCursor(0, cCs2)

\* ------------------------------------------------------------------------
\* Claims about parseLimit, checked under SpecLimit
\* ------------------------------------------------------------------------

\* C10: parseLimit. A missing limit parameter yields the configured default;
\* a numeric value above the configured max yields exactly max, without an
\* error; a negative or non-numeric value yields an error; so a limit
\* returned without error for a present parameter is within 0..max.
C10_ParseLimit ==
    lPc = "done" =>
        /\ lParam = <<>> => lOut = [limit |-> lCfg.Default, err |-> FALSE]
        /\ (lParam # <<>> /\ ~Atoi(lParam).err /\ Atoi(lParam).val > lCfg.Max)
                => lOut = [limit |-> lCfg.Max, err |-> FALSE]
        /\ (lParam # <<>> /\ (Atoi(lParam).err \/ Atoi(lParam).val < 0))
                => lOut.err
        /\ (lParam # <<>> /\ ~lOut.err)
                => (0 <= lOut.limit /\ lOut.limit <= lCfg.Max)

\* a numeric limit above the configured max has been parsed
C10_Witness ==
    /\ lPc = "done"
    /\ lParam = <<"9">>
    /\ lCfg.Max = 2
    /\ lOut = [limit |-> 2, err |-> FALSE]

\* ------------------------------------------------------------------------
\* Claims about pagination, checked under SpecFeatures
\* ------------------------------------------------------------------------

\* the pages the client received, one after the other
RECURSIVE Concat(_)
Concat(ps) == IF ps = <<>> THEN <<>> ELSE Head(ps) \o Concat(Tail(ps))

IsPrefix(s, t) == Len(s) <= Len(t) /\ s = SubSeq(t, 1, Len(s))

\* the last request was answered from the datasource without an error and
\* the table has not changed since
Answered ==
    /\ started
    /\ resp.queried
    /\ resp.status # StatusInternalServerError
    /\ snapshot = table

\* the traversal has come to its end: no further page is offered
TraversalEnded ==
    /\ started
    /\ resp.queried
    /\ resp.status # StatusInternalServerError
    /\ ~resp.cursors.HasNext

\* the features the last request selects: all of the table, or those whose
\* geometry intersects the request's bbox
Selected ==
    IF resp.opt.Bbox = NoBbox THEN table
    ELSE { f \in table : st_intersects(resp.opt.Bbox, f) }

\* C3: forward progress. For every feature f of a page, the page obtained by
\* requesting that page's next cursor holds no feature with fid <= f.fid.
C3_ForwardProgress ==
    \A i \in 1..(Len(pages) - 1) :
        \A f \in Range(pages[i]), g \in Range(pages[i + 1]) : g > f

\* C4: pagination completeness. On an unchanged table, for any limit >= 1
\* (limit = 0 is the case of C9) and any filter, the
\* pages obtained by following next cursors from the first page (the empty
\* cursor, or one that decodes to fid 0) are, concatenated, exactly the
\* features of the unpaginated query: none skipped, none repeated.
C4_Completeness ==
    (started /\ mods = 0 /\ firstFid = 0 /\ resp.queried
        /\ resp.status # StatusInternalServerError /\ resp.opt.Limit >= 1) =>
        /\ IsPrefix(Concat(pages), SortAsc(Selected))
        /\ ~resp.cursors.HasNext => Concat(pages) = SortAsc(Selected)

\* the fids at or after cursor c, ascending, and those before it, descending
AtOrAfter(T, c) == SortAsc({ f \in T : f >= c })

Before(T, c) == SortDesc({ f \in T : f < c })

\* the page served for cursor fid c is the first L features with fid >= c
PageIsFirstL(T, c, L) ==
    resp.features = Take(AtOrAfter(T, c), L)

\* the next cursor carries the fid of the (L+1)-th feature with fid >= c,
\* and HasNext tells whether that feature exists
NextIsLPlus1(T, c, L, cs) ==
    LET after == AtOrAfter(T, c)
    IN  /\ resp.cursors.HasNext <=> Len(after) > L
        /\ Len(after) > L =>
                Decode(resp.cursors.Next, cs) = DecodedCursor(after[L + 1], cs)

\* the prev cursor carries the fid that starts the preceding page of L
\* features, and HasPrev tells whether there is such a fid
PrevIsLBefore(T, c, L, cs) ==
    LET before == Before(T, c)
    IN  /\ resp.cursors.HasPrev <=> Len(before) >= L
        /\ Len(before) >= L =>
                Decode(resp.cursors.Prev, cs) = DecodedCursor(before[L], cs)

\* the scenario of the specification: fids 1..10 and limit=2 give 1,2 with
\* next = 3; following next gives 3,4 with prev = 1 and next = 5
ScenarioOneToTen ==
    LET cfg == [Default |-> 10, Max |-> 1000]
        r1 == [collection |-> "addresses", limit |-> <<"2">>, bbox |-> <<>>,
               datetime |-> <<>>, unknown |-> FALSE, cursor |-> <<>>,
               checksum |-> <<1>>, format |-> "json"]
        p1 == CollectionContent(r1, 1..10, cfg, FALSE)
        p2 == CollectionContent([r1 EXCEPT !.cursor = p1.cursors.Next],
                                1..10, cfg, FALSE)
    IN  /\ p1.features = <<1, 2>>
        /\ p1.cursors.HasNext /\ ~p1.cursors.HasPrev
        /\ Decode(p1.cursors.Next, <<1>>) = DecodedCursor(3, <<1>>)
        /\ p2.features = <<3, 4>>
        /\ p2.cursors.HasPrev /\ p2.cursors.HasNext
        /\ Decode(p2.cursors.Prev, <<1>>) = DecodedCursor(1, <<1>>)
        /\ Decode(p2.cursors.Next, <<1>>) = DecodedCursor(5, <<1>>)

\* C5: page and cursor contents. For every cursor fid c and limit L >= 1
\* GetFeatures returns the first L features with fid >= c, ascending; the
\* next cursor carries (decodes to) the fid of the (L+1)-th such feature and
\* HasNext tells whether it exists; the prev cursor carries the fid that
\* starts the preceding page of L features and HasPrev tells whether there
\* is one; fids 1..10 with L = 2 give 1,2 with next = 3, then 3,4 with
\* prev = 1.
C5_PageAndCursors ==
    /\ ~started => ScenarioOneToTen
    /\ (Answered /\ resp.opt.Limit >= 1) =>
        /\ PageIsFirstL(Selected, resp.opt.Cursor.FID, resp.opt.Limit)
        /\ NextIsLPlus1(Selected, resp.opt.Cursor.FID, resp.opt.Limit,
                        resp.opt.Cursor.FiltersChecksum)
        /\ PrevIsLBefore(Selected, resp.opt.Cursor.FID, resp.opt.Limit,
                         resp.opt.Cursor.FiltersChecksum)

\* C6: cursor stability under concurrent modification. With features
\* inserted and deleted between the page requests, following next cursors
\* never returns a feature an earlier page returned, and never omits a
\* feature that was stored during the whole traversal and has
\* fid >= the first cursor.
C6_StableCursor ==
    pages # <<>> =>
        /\ \A i, j \in 1..Len(Concat(pages)) :
                Concat(pages)[i] = Concat(pages)[j] => i = j
        /\ TraversalEnded =>
                \A f \in stable \cap Selected :
                    f >= firstFid => f \in Range(Concat(pages))

\* C9: a request with limit=0 on a collection that has matching features is
\* answered with an empty page (no features, no error status) whose next
\* cursor is populated (HasNext true).
C9_LimitZeroEmptyPage ==
    (Answered /\ req.limit = <<"0">> /\ Selected # {} /\ resp.opt.Cursor.FID = 0) =>
        /\ resp.status = StatusOK
        /\ resp.features = <<>>
        /\ resp.cursors.HasNext


\* ------------------------------------------------------------------------
\* Claims about the feature routes (SpecHandlers)
\* ------------------------------------------------------------------------

\* the request of the run reaches the datasource: neither handler answers
\* 400 or 404 before GetFeatures / GetFeature is called
ReachesDatasource ==
    IF hRoute = "items"
    THEN /\ hReq.collection \in ConfiguredCollections
         /\ ~validateNoUnknownParams(hReq)
         /\ ~parseLimit(hReq.limit, HandlerLimits).err
    ELSE /\ ~Atoi(hReq.featureId).err
         /\ ~validateNoUnknownParams(hReq)

\* the request is well-formed: no malformed or unknown parameter, a numeric
\* feature id
WellFormed ==
    /\ ~validateNoUnknownParams(hReq)
    /\ ~parseLimit(hReq.limit, HandlerLimits).err
    /\ hRoute = "item" => ~Atoi(hReq.featureId).err

\* C11: a well-formed request for a collection id that is not configured is
\* answered with 404, on the items route and on the single-feature route
\* (first run, the datasource working).
C11_UnknownCollection404 ==
    (hPc = "done" /\ WellFormed /\ hErrs[1] = NoError
        /\ hReq.collection \notin ConfiguredCollections)
        => hResps[1].status = StatusNotFound

\* C12: when GetFeatures or GetFeature returns an error the response is 500
\* with the message of the operation, formatted with the collection id (and
\* the feature id) only; the two runs of a request whose datasource errors
\* differ give the same response.
C12_ErrorConfinement ==
    (hPc = "done" /\ ReachesDatasource
        /\ hErrs[1] # NoError /\ hErrs[2] # NoError)
        => /\ hResps[1].status = StatusInternalServerError
           /\ hResps[1].body.text \in {"failed to retrieve feature collection",
                                       "failed to retrieve feature in collection"}
           /\ hResps[1].body.text \notin DatasourceErrors
           /\ hResps[1].body.collection = hReq.collection
           /\ hResps[1].body.fid \in {NoFid, Atoi(hReq.featureId).val}
           /\ hResps[1].body.features = <<>>
           /\ hResps[1] = hResps[2]

\* a request answered with 500 in both runs, the datasource errors differing
C12_Witness ==
    /\ hPc = "done"
    /\ ReachesDatasource
    /\ hReq.collection = "addresses"
    /\ hErrs[1] = "database is locked"
    /\ hErrs[2] = "no such table: addresses"
    /\ hResps[1].status = StatusInternalServerError
    /\ hResps[2].status = StatusInternalServerError

\* the first run reaches the switch on the negotiated format: the request is
\* well-formed, the collection configured, the datasource works and holds
\* the features asked for
ReachesFormatSwitch ==
    /\ WellFormed
    /\ hReq.collection \in ConfiguredCollections
    /\ hReq.collection \in GpkgCollections
    /\ hErrs[1] = NoError
    /\ IF hRoute = "items" THEN hTable # {}
       ELSE Atoi(hReq.featureId).val \in hTable

\* C13: when the negotiated format is JSON-FG both handlers answer 404, and
\* never a success status with a payload (first run, a request that reaches
\* the switch on the format).
C13_JsonFgNotFound ==
    (hPc = "done" /\ ReachesFormatSwitch /\ hReq.format = "jsonfg")
        => /\ hResps[1].status = StatusNotFound
           /\ ~(hResps[1].status = StatusOK /\ hResps[1].body # EmptyBody)

\* ------------------------------------------------------------------------
\* Claims about the reverse proxy (SpecProxy)
\* ------------------------------------------------------------------------

\* C14: whenever prefer204 is true and the upstream answers 404, the client
\* receives status 204 with an empty body and no Content-Type value, whatever
\* contentTypeOverwrite is.
C14_NotFoundRewritten ==
    (pPc = "done" /\ pPrefer204 /\ ~pUpstream.err
        /\ pUpstream.res.StatusCode = StatusNotFound)
        => /\ pOut.StatusCode = StatusNoContent
           /\ pOut.Body = <<>>
           /\ pOut.Header.ContentType = <<>>

\* C15: whenever contentTypeOverwrite is non-empty and the upstream answers,
\* the Content-Type of the response is the override, whether prefer204 is
\* true or false.
C15_ContentTypeOverride ==
    (pPc = "done" /\ ~pUpstream.err /\ pOverwrite # "")
        => pOut.Header.ContentType = <<pOverwrite>>

\* ------------------------------------------------------------------------
\* Claims about shutdown (SpecShutdown)
\* ------------------------------------------------------------------------

\* the number of invocations of hook fn by the process
Invocations(fn) ==
    Cardinality({ i \in DOMAIN hookCalls : hookCalls[i].hook = fn })

\* the hooks instance name has run, in the order it ran them
HooksRunBy(name) ==
    LET calls == SelectSeq(hookCalls, LAMBDA c : c.by = name)
    IN  [i \in DOMAIN calls |-> calls[i].hook]

\* C16: every registered shutdown hook is invoked exactly once per process
\* shutdown, also with the debug server enabled: never more than once, and
\* once when the main server has shut down.
C16_HooksOnce ==
    \A i \in DOMAIN shutdownHooks :
        /\ Invocations(shutdownHooks[i]) <= 1
        /\ srvPc["main"] = "returned" => Invocations(shutdownHooks[i]) = 1

\* C17: in every startServer instance no hook runs before the stop signal,
\* the hooks run in registration order, server.Shutdown is called only when
\* every registered hook has run, and only after the shutdownDelay of the
\* instance, if positive, has elapsed.
C17_ShutdownOrdering ==
    /\ hookCalls # <<>> => stopSignal
    /\ \A name \in Servers :
          /\ HooksRunBy(name) = SubSeq(shutdownHooks, 1, srvHook[name])
          /\ srvPc[name] \in {"shutdown", "returned"}
                => /\ HooksRunBy(name) = shutdownHooks
                   /\ DelayOf(name) > 0 => srvSlept[name]
          /\ srvPc[name] \in {"absent", "spawned", "waiting"}
                => HooksRunBy(name) = <<>>

\* the main server has shut down after two hooks and a delay
C17_Witness ==
    /\ srvPc["main"] = "returned"
    /\ stopSignal
    /\ shutdownDelay > 0
    /\ srvSlept["main"]
    /\ Len(shutdownHooks) = MaxHooks
    /\ HooksRunBy("main") = shutdownHooks

\* ------------------------------------------------------------------------
\* Claims about the startup of the GeoPackage datasource (SpecStartup)
\* ------------------------------------------------------------------------

\* a row of gpkg_contents matches the collection by identifier or by the
\* configured datasource id
Matches(collection, row) ==
    \/ row.Identifier = collection.ID
    \/ (collection.DatasourceID # "" /\ row.Identifier = collection.DatasourceID)

\* C18: after NewGeoPackage succeeds every configured collection has its
\* (one) entry in featureTableByCollectionID; if a configured collection
\* matches no row of gpkg_contents, startup fails.
C18_EveryCollectionResolved ==
    gPc = "done" =>
        \A i \in DOMAIN gCollections :
            /\ gOut.ok => gCollections[i].ID \in DOMAIN gOut.featureTableByCollectionID
            /\ (\A j \in DOMAIN gGpkg.rows : ~Matches(gCollections[i], gGpkg.rows[j]))
                    => ~gOut.ok

\* ------------------------------------------------------------------------
\* Claims about ServePage and RenderAndServePage (SpecPages)
\* ------------------------------------------------------------------------

\* the steps of a sequence of steps
StepsOf(steps) == { steps[i] : i \in DOMAIN steps }

\* C20: in ServePage and in RenderAndServePage a request that fails request
\* validation gets 400 and nothing else happens (no template lookup, no
\* rendering, no write of the payload); a rendered payload that fails
\* response validation gets 500 and is not written.
C20_ValidationOutcomes ==
    pgPc = "done" =>
        /\ ~pgIn.reqValid
              => /\ pgOut.status = StatusBadRequest
                 /\ pgOut.steps = <<"validateRequest">>
                 /\ ~pgOut.payload
        /\ (pgIn.reqValid /\ pgIn.found /\ ~pgIn.respValid)
              => /\ pgOut.status = StatusInternalServerError
                 /\ "validateResponse" \in StepsOf(pgOut.steps)
                 /\ "write" \notin StepsOf(pgOut.steps)
                 /\ ~pgOut.payload
                 /\ pgOut.contentType = ""

\* RenderAndServePage answered 500 to a rendered payload that fails response
\* validation
C20_Witness ==
    /\ pgPc = "done"
    /\ pgFn = "RenderAndServePage"
    /\ pgIn.reqValid /\ pgIn.found /\ ~pgIn.respValid
    /\ pgOut.status = StatusInternalServerError
    /\ "renderHTMLTemplate" \in StepsOf(pgOut.steps)

\* ------------------------------------------------------------------------
\* Claims about the bbox query (SpecBbox)
\* ------------------------------------------------------------------------

\* the features of the table whose geometry intersects the bbox
Intersecting(T, bbox) == { f \in T : st_intersects(bbox, f) }

\* the reference query: the query of the same shape over the intersecting
\* features, without the R-tree, the B-tree index and bbox_size
ReferenceQuery(T, opt) ==
    LET hit == Intersecting(T, opt.Bbox)
        next == OrderByAscLimit({ f \in hit : f >= opt.Cursor.FID }, opt.Limit + 1)
        prev == OrderByDescLimit({ f \in hit : f < opt.Cursor.FID }, opt.Limit)
    IN  SelectPage(NextPrevFeatCTE(NextPrevCTE(next, prev), opt.Limit),
                   opt.Cursor.FID, opt.Limit)

\* the traversal has ended: the last page is empty or has no next fid
NoNextPage == bRows = <<>> \/ bRows[1].nextfid = <<>>

Commas(param) == { i \in DOMAIN param : param[i] = "," }

\* the parameter is four runs of digits with a comma between them
FourNumbers(param) ==
    /\ Cardinality(Commas(param)) = 3
    /\ \A i \in DOMAIN param \ Commas(param) : IsDigit(param[i])
    /\ 1 \notin Commas(param)
    /\ Len(param) \notin Commas(param)
    /\ \A i \in Commas(param) : i + 1 \notin Commas(param)

\* the parameter is a decimal number with an optional sign
Numeric(param) ==
    LET digits == IF param[1] \in {"-", "+"} THEN Tail(param) ELSE param
    IN  digits # <<>> /\ \A i \in DOMAIN digits : IsDigit(digits[i])

\* a limit that is present and not a number, or a negative number
InvalidLimit(param) ==
    /\ param # <<>>
    /\ \/ ~Numeric(param)
       \/ (param[1] = "-" /\ \E i \in DOMAIN param : param[i] \in {"1", "2", "9"})

\* the query of the request is not valid
BadQuery(r) ==
    \/ (r.bbox # <<>> /\ ~FourNumbers(r.bbox))
    \/ r.datetime # <<>>
    \/ InvalidLimit(r.limit)
    \/ r.unknown

\* C21: a feature-collection request with a bbox that is not four numbers,
\* with a datetime, with an invalid limit or with an unknown parameter is
\* answered with 400, and the datasource is not queried for it.
C21_StrictValidation ==
    (started /\ BadQuery(req))
        => (resp.status = StatusBadRequest /\ ~resp.queried)

\* a request with a bbox of three values on a table with features got 400
C21_Witness ==
    /\ started
    /\ table # {}
    /\ req.bbox = <<"2", ",", "0", ",", "4">>
    /\ req.limit = <<>>
    /\ resp.status = StatusBadRequest
    /\ ~resp.queried

\* ------------------------------------------------------------------------
\* Claims about the single-feature route (SpecHandlers)
\* ------------------------------------------------------------------------

\* the feature id of the request, a number
RequestedFid == Atoi(hReq.featureId).val

\* C22: for a configured collection (well-formed request, the queries of the
\* datasource working) GetFeature returns (nil, no error) when no row has
\* the requested fid and the handler answers 404; for an existing fid it
\* returns exactly that feature.
C22_SingleFeatureLookup ==
    (hPc = "done" /\ hRoute = "item" /\ WellFormed /\ hErrs[1] = NoError
        /\ hReq.collection \in ConfiguredCollections)
        => LET got == GetFeature(hTable, hReq.collection, RequestedFid, hErrs[1])
           IN  /\ got.err = NoError
               /\ RequestedFid \notin hTable
                    => (got.feat = <<>> /\ hResps[1].status = StatusNotFound)
               /\ RequestedFid \in hTable => got.feat = <<RequestedFid>>

\* ------------------------------------------------------------------------
\* Claims about the rows and the cursors of a page (SpecFeatures)
\* ------------------------------------------------------------------------

\* the rows the feature-collection query of the last request gives on the
\* table
RowsOfPage == makeFeaturesQuery(table, resp.opt)

\* C23: in the rows of the feature-collection query (no bbox) every row of a
\* page carries the same (prevfid, nextfid) pair.
C23_SamePairInEveryRow ==
    (started /\ resp.queried /\ resp.opt.Bbox = NoBbox)
        => \A i, j \in DOMAIN RowsOfPage :
              /\ RowsOfPage[i].prevfid = RowsOfPage[j].prevfid
              /\ RowsOfPage[i].nextfid = RowsOfPage[j].nextfid

\* ------------------------------------------------------------------------
\* Claims about the index paths of the bbox query (SpecBbox)
\* ------------------------------------------------------------------------

\* the number of R-tree candidates: the features whose bounding box hits
\* the bbox
Candidates == Cardinality({ f \in bTable : BoundingBoxHit(f, bOpt.Bbox) })

\* the path of the given bbox_size contributes no row to next and to prev
PathIdle(size) ==
    /\ NextBbox(bTable, bOpt, size) = <<>>
    /\ PrevBbox(bTable, bOpt, size) = <<>>

\* the path of the given bbox_size gives next (limit + 1 rows from the
\* cursor on) and prev (limit rows before the cursor)
PathActive(size) ==
    LET hit == { f \in bTable : st_intersects(bOpt.Bbox, f) }
    IN  /\ NextBbox(bTable, bOpt, size)
              = OrderByAscLimit({ f \in hit : f >= bOpt.Cursor.FID }, bOpt.Limit + 1)
        /\ PrevBbox(bTable, bOpt, size)
              = OrderByDescLimit({ f \in hit : f < bOpt.Cursor.FID }, bOpt.Limit)

\* C24: in every bbox query one path is active and the other contributes no
\* row, the same for next and prev: the R-tree path is the active one iff
\* fewer than 10000 bounding boxes hit the bbox, the B-tree path from
\* exactly 10000 on.
C24_IndexSelection ==
    bPc = "page" =>
        /\ Candidates < 10000 => (PathActive("small") /\ PathIdle("big"))
        /\ Candidates >= 10000 => (PathActive("big") /\ PathIdle("small"))

\* a query with exactly bboxSizeBig candidates, served by the B-tree path
C24_Witness ==
    /\ bPc = "page"
    /\ Candidates = bboxSizeBig
    /\ NextBbox(bTable, bOpt, "big") # <<>>
    /\ NextBbox(bTable, bOpt, "small") = <<>>

\* ------------------------------------------------------------------------
\* Claims about the datasource during shutdown (SpecShutdown)
\* ------------------------------------------------------------------------

\* C25: once the Close hook of the datasource has run no request handler
\* calls GetFeatures or GetFeature: every call of the datasource found it
\* open.
C25_NoUseAfterClose ==
    \A i \in DOMAIN dsCalls : ~dsCalls[i]

\* the features of the table at the last query that match the filters of
\* the request
Matching ==
    IF resp.opt.Bbox = NoBbox THEN snapshot
    ELSE { f \in snapshot : st_intersects(resp.opt.Bbox, f) }

\* C26: for any cursor fid and limit L >= 1, after any inserts and deletes,
\* the page reports HasPrev = true iff at least one feature matching the
\* filters has a fid below the first fid of the page.
C26_HasPrevIffEarlier ==
    (started /\ resp.status = StatusOK /\ req.format # "jsonfg"
        /\ resp.opt.Limit >= 1 /\ resp.features # <<>>)
        => (resp.cursors.HasPrev <=> \E f \in Matching : f < resp.features[1])

\* ceil(n / L)
CeilDiv(n, L) == (n + L - 1) \div L

\* a traversal from the first page over a table no process has changed, with
\* every request answered 200 so far
UnchangedTraversal ==
    /\ started /\ firstFid = 0 /\ mods = 0
    /\ resp.status = StatusOK /\ resp.opt.Limit >= 1
    /\ Cardinality(Matching) >= 1

\* C27: on an unchanged table with n >= 1 matching features and limit
\* L >= 1, following next cursors from the first page reaches a page with
\* HasNext = false after exactly ceil(n / L) page requests: HasNext is true
\* on every earlier page and false on page ceil(n / L).
C27_TerminatesInCeilPages ==
    UnchangedTraversal =>
        LET pagesNeeded == CeilDiv(Cardinality(Matching), resp.opt.Limit)
        IN  /\ Len(pages) <= pagesNeeded
            /\ resp.cursors.HasNext <=> Len(pages) < pagesNeeded

\* ------------------------------------------------------------------------
\* Claims about the template lookup of RenderAndServePage (SpecPages)
\* ------------------------------------------------------------------------

\* C28: RenderAndServePage produces exactly one response per request: when
\* the parsed template for the key is missing it answers 500 and stops
\* after the template lookup, it does not go on to render (where the nil
\* template makes the handler panic), validate or write.
C28_MissingTemplateStops ==
    (pgPc = "done" /\ pgFn = "RenderAndServePage"
        /\ pgIn.reqValid /\ ~pgIn.found)
        => /\ pgOut.status = StatusInternalServerError
           /\ pgOut.steps = <<"validateRequest", "getTemplate">>
           /\ ~pgOut.payload
           /\ ~pgOut.panicked

\* ------------------------------------------------------------------------
\* Frame of the reverse proxy (SpecProxy)
\* ------------------------------------------------------------------------

\* C29: when prefer204 is false, or the upstream status is not 404, the
\* client receives the status code, the body and the Content-Length of the
\* upstream unchanged.
C29_ProxyFrame ==
    (pPc = "done" /\ ~pUpstream.err
        /\ (~pPrefer204 \/ pUpstream.res.StatusCode # StatusNotFound))
        => /\ pOut.StatusCode = pUpstream.res.StatusCode
           /\ pOut.Body = pUpstream.res.Body
           /\ pOut.Header.ContentLength = pUpstream.res.Header.ContentLength

\* with prefer204 and an override the upstream answered 500 with a body: the
\* Content-Type is replaced, the status, body and Content-Length are kept
C29_Witness ==
    /\ pPc = "done" /\ ~pUpstream.err
    /\ pPrefer204 /\ pOverwrite # ""
    /\ pUpstream.res.StatusCode = StatusInternalServerError
    /\ pUpstream.res.Body = <<1, 2>>
    /\ pOut.Header.ContentType = <<pOverwrite>>
    /\ pOut.StatusCode = StatusInternalServerError
    /\ pOut.Body = <<1, 2>>
    /\ pOut.Header.ContentLength = <<"2">>

\* ------------------------------------------------------------------------
\* Width of the fid of a cursor (SpecCodec)
\* ------------------------------------------------------------------------

\* the unsigned big-endian number bs fits in a signed 64-bit integer
FitsInt64(bs) ==
    LET digits == StripZeros(bs)
    IN  Len(digits) < 8 \/ (Len(digits) = 8 /\ digits[1] < 128)

\* the decoded bytes of the cursor are a prefix, one separator and the
\* expected checksum
PrefixAndChecksum ==
    /\ ~DecodeString(cCursor).err
    /\ LET parts == BytesSplit(DecodeString(cCursor).bytes, separator)
       IN  Len(parts) = 2 /\ parts[2] = cCs2

\* C30: Decode never yields a fid the cursor does not encode. For a cursor
\* whose prefix before the separator is the big-endian unsigned integer v
\* and whose checksum matches, the returned FID is v when v fits in a signed
\* 64-bit integer and 0 otherwise: a value >= 2^63, also one longer than 8
\* bytes, never wraps to a different positive fid.
C30_NoWrap ==
    (cPc = "decoded" /\ PrefixAndChecksum)
        => LET prefix == BytesSplit(DecodeString(cCursor).bytes, separator)[1]
           IN  cOut.FID = IF FitsInt64(prefix)
                          THEN BytesValue(StripZeros(prefix))
                          ELSE 0

=============================================================================
